---- MODULE Spec2Model ----
(***************************************************************************)
(* Model of the hacker_agent MCP gateway (chatbot/src): the stdin/stdout   *)
(* JSON-RPC loop of main.rs, the ToolRegistry, the tools' execute methods  *)
(* up to their HTTP call, and the prompts module.                          *)
(*                                                                         *)
(* JSON values are abstracted to tagged records.  A field that is absent   *)
(* from a JSON object is the string Absent, a field holding a value that   *)
(* is not a JSON string is NonString.                                      *)
(***************************************************************************)
EXTENDS Integers, Sequences, FiniteSets, TLC

\* Number of lines the environment writes to stdin before it closes it.
MaxLines == 2

-----------------------------------------------------------------------------
(* Option<T> *)
None == [t |-> "None"]
Some(v) == [t |-> "Some", v |-> v]

(* Result<T, E> of the synchronous part of a call; Pending is a future     *)
(* suspended on the HTTP exchange with the backend.                        *)
Ok(v) == [t |-> "Ok", v |-> v]
Err(e) == [t |-> "Err", e |-> e]
Pending(c) == [t |-> "Pending", c |-> c]

Absent == "<absent>"
Null == "null"
NonString == "<nonstring>"

-----------------------------------------------------------------------------
(* serde_json::Value, as far as the tools look into it: a tool reads       *)
(* input.get(field).and_then(as_str), which is Some only for an object     *)
(* whose field holds a string.                                             *)
AbsentValue == [t |-> "absent", str |-> {}, other |-> {}]
NullValue == [t |-> "null", str |-> {}, other |-> {}]
Object(str, other) == [t |-> "object", str |-> str, other |-> other]

\* #[serde(default)] on a Value field: a missing field becomes Value::Null
DefaultValue(v) == IF v.t = "absent" THEN NullValue ELSE v

\* input.get(field).and_then(|v| v.as_str()) is Some
HasStr(input, field) == input.t = "object" /\ field \in input.str

-----------------------------------------------------------------------------
(* The params payload of a message.  An array is read positionally by the  *)
(* derived Deserialize: element 0 is `name`, element 1 is `input`          *)
(* (ToolCallParams) or `arguments` (PromptGetParams).                      *)
Params(t, name, input, arguments, pv) ==
    [t |-> t, name |-> name, input |-> input, arguments |-> arguments,
     protocolVersion |-> pv]
AbsentParams == Params("absent", Absent, AbsentValue, AbsentValue, Absent)
NullParams == Params("null", Absent, AbsentValue, AbsentValue, Absent)
ScalarParams == Params("scalar", Absent, AbsentValue, AbsentValue, Absent)
ObjectParams(name, input, arguments, pv) == Params("object", name, input, arguments, pv)
ArrayParams(e0, e1) == Params("array", e0, e1, e1, Absent)

-----------------------------------------------------------------------------
(* The tools (impl Tool for ...), named by their struct.                   *)
RegisteredTools ==
    << "EchoTool", "NmapOpenPortsTool", "AdvancedNmapTool", "QuickScanTool",
       "StealthScanTool", "OpenVASGetVersionTool", "OpenVASListConfigsTool",
       "OpenVASCreateTargetTool", "OpenVASCreateTaskTool",
       "OpenVASStartTaskTool", "OpenVASTaskStatusTool", "OpenVASGetReportTool" >>

\* Tool::name
ToolName(tool) ==
    CASE tool = "EchoTool" -> "echo"
      [] tool = "NmapOpenPortsTool" -> "nmap_open_ports"
      [] tool = "AdvancedNmapTool" -> "advanced_nmap_scan"
      [] tool = "QuickScanTool" -> "quick_scan"
      [] tool = "StealthScanTool" -> "stealth_scan"
      [] tool = "ComprehensiveScanTool" -> "comprehensive_scan"
      [] tool = "NetworkDiscoveryTool" -> "network_discovery"
      [] tool = "OpenVASGetVersionTool" -> "openvas_get_version"
      [] tool = "OpenVASListConfigsTool" -> "openvas_list_scan_configs"
      [] tool = "OpenVASCreateTargetTool" -> "openvas_create_target"
      [] tool = "OpenVASCreateTaskTool" -> "openvas_create_task"
      [] tool = "OpenVASStartTaskTool" -> "openvas_start_task"
      [] tool = "OpenVASTaskStatusTool" -> "openvas_task_status"
      [] tool = "OpenVASGetReportTool" -> "openvas_get_report"

\* Tool::description
Description(tool) ==
    CASE tool = "EchoTool" -> "Echoes back the given JSON input."
      [] tool = "NmapOpenPortsTool" -> "Scans open TCP ports on a given target with optional timing template (T0-T5)."
      [] tool = "AdvancedNmapTool" -> "Comprehensive Nmap scan with multiple options: timing, scan types, service detection, OS detection, scripts, and output formats."
      [] tool = "QuickScanTool" -> "Fast network reconnaissance with common scan patterns (ping sweep, port scan, service detection)."
      [] tool = "StealthScanTool" -> "Stealthy scans with evasion techniques (slow timing, decoys, fragmentation)."
      [] tool = "ComprehensiveScanTool" -> "Full comprehensive scan: all 65535 ports with service detection, OS detection, and scripts. Use for thorough security assessment."
      [] tool = "NetworkDiscoveryTool" -> "Network discovery scan for subnet enumeration. Finds live hosts and checks common ports (22, 80, 443, 3389, 8080)."
      [] tool = "OpenVASGetVersionTool" -> "Fetches the OpenVAS/GVM version via the Go backend."
      [] tool = "OpenVASListConfigsTool" -> "Lists all available OpenVAS/GVM scan configurations (profiles) via the Go backend."
      [] tool = "OpenVASCreateTargetTool" -> "Creates an OpenVAS/GVM target (name, hosts, optional port_range) via the Go backend and returns its ID."
      [] tool = "OpenVASCreateTaskTool" -> "Creates an OpenVAS/GVM task (name, config_id, target_id) via the Go backend and returns its ID."
      [] tool = "OpenVASStartTaskTool" -> "Starts an existing OpenVAS/GVM task by ID via the Go backend and returns the raw XML response."
      [] tool = "OpenVASTaskStatusTool" -> "Fetches the current status/details for an existing OpenVAS/GVM task by ID via the Go backend."
      [] tool = "OpenVASGetReportTool" -> "Fetches the final OpenVAS/GVM report by report ID via the Go backend."

\* The fields execute() demands as strings, in the order it reads them.
RequiredFields(tool) ==
    CASE tool \in {"NmapOpenPortsTool", "AdvancedNmapTool", "QuickScanTool",
                   "StealthScanTool", "ComprehensiveScanTool"} -> <<"target">>
      [] tool = "NetworkDiscoveryTool" -> <<"subnet">>
      [] tool = "OpenVASCreateTargetTool" -> <<"name", "hosts">>
      [] tool = "OpenVASCreateTaskTool" -> <<"name", "config_id", "target_id">>
      [] tool \in {"OpenVASStartTaskTool", "OpenVASTaskStatusTool"} -> <<"task_id">>
      [] tool = "OpenVASGetReportTool" -> <<"report_id">>
      [] OTHER -> << >>

\* Tool::input_schema, reduced to its "required" list
InputSchema(tool) ==
    [type |-> "object", required |-> RequiredFields(tool)]

\* The URL the api layer sends the tool's request to.
Endpoint(tool) ==
    CASE tool = "OpenVASGetVersionTool" -> "http://127.0.0.1:8081/openvas/version"
      [] tool = "OpenVASListConfigsTool" -> "http://127.0.0.1:8081/openvas/configs"
      [] tool = "OpenVASCreateTargetTool" -> "http://127.0.0.1:8080/openvas/targets"
      [] tool = "OpenVASCreateTaskTool" -> "http://127.0.0.1:8080/openvas/tasks"
      [] tool = "OpenVASStartTaskTool" -> "http://127.0.0.1:8080/openvas/tasks/start"
      [] tool = "OpenVASTaskStatusTool" -> "http://127.0.0.1:8080/openvas/tasks/status"
      [] tool = "OpenVASGetReportTool" -> "http://127.0.0.1:8080/openvas/reports"
      [] OTHER -> "http://127.0.0.1:8080/scan-open-ports"

\* The first required field that input does not give as a string, or Absent.
FirstMissing(tool, input) ==
    LET req == RequiredFields(tool)
        bad == {i \in 1..Len(req) : ~HasStr(input, req[i])}
    IN  IF bad = {} THEN Absent
        ELSE req[CHOOSE i \in bad : \A j \in bad : i <= j]

\* Execute posting to the backend without looking at the input first
Execute_NoFieldCheck(tool, input) ==
    IF tool = "EchoTool" THEN Ok([t |-> "echo", echo |-> input])
    ELSE Pending([url |-> "http://127.0.0.1:8080/scan-open-ports"])

\* Tool::execute up to its first await: EchoTool answers at once, every
\* other tool checks its required fields and then posts to the backend.
Execute(tool, input) ==
    IF tool = "EchoTool" THEN Ok([t |-> "echo", echo |-> input])
    ELSE IF FirstMissing(tool, input) # Absent
         THEN Err(<<"missing required field ", FirstMissing(tool, input)>>)
    ELSE Pending([url |-> Endpoint(tool)])

\* What the HTTP exchange can come to: send() fails, error_for_status()
\* rejects a non-2xx status, resp.json() rejects the body, or a JSON body.
BackendOutcomes == {"ok", "transport", "status", "decode"}

\* BackendResult without error_for_status(): the body of a non-2xx answer
\* is returned as if it were the result
BackendResult_StatusIgnored(c, outcome) ==
    IF outcome \in {"ok", "status"} THEN Ok([t |-> "body"]) ELSE Err(<<"reqwest::Error">>)

\* The api function after its await: the body, or the reqwest error (its
\* text is not modelled).
BackendResult(c, outcome) ==
    IF outcome = "ok" THEN Ok([t |-> "body"]) ELSE Err(<<"reqwest::Error">>)

-----------------------------------------------------------------------------
(* ToolRegistry: the HashMap from name to tool.                            *)
EmptyRegistry == [n \in {} |-> "none"]

\* Arc::new(tool): the tool in an allocation of its own.  addr tells the
\* allocations apart; it is the ordinal of the registration that made it.
Arc(tool, addr) == [tool |-> tool, addr |-> addr]

\* ToolRegistry::register keeping the entry the name already has
\* (entry(name).or_insert in the place of insert)
register_KeepFirst(reg, tool, addr) ==
    [n \in DOMAIN reg \cup {ToolName(tool)} |->
        IF n \in DOMAIN reg THEN reg[n] ELSE Arc(tool, addr)]

\* ToolRegistry::register: HashMap::insert, the later entry replaces
register(reg, tool, addr) ==
    [n \in DOMAIN reg \cup {ToolName(tool)} |->
        IF n = ToolName(tool) THEN Arc(tool, addr) ELSE reg[n]]

\* the calls of register in the order of tools, the first with address addr
RECURSIVE RegisterSeq(_, _, _)
RegisterSeq(reg, tools, addr) ==
    IF tools = << >> THEN reg
    ELSE RegisterSeq(register(reg, Head(tools), addr), Tail(tools), addr + 1)

\* register_all_tools registering ComprehensiveScanTool as well
register_all_tools_WithComprehensive(reg) ==
    LET all == RegisteredTools \o << "ComprehensiveScanTool" >>
    IN  [n \in {ToolName(all[i]) : i \in 1..Len(all)} |->
            LET i == CHOOSE j \in 1..Len(all) : ToolName(all[j]) = n
            IN  [tool |-> all[i], addr |-> i]]

\* tools::register_all_tools
register_all_tools(reg) == RegisterSeq(reg, RegisteredTools, 1)

\* ToolRegistry::call answering an unknown name with an empty success
RegistryCall_UnknownIsNull(reg, name, input) ==
    IF name \notin DOMAIN reg THEN Ok(NullValue)
    ELSE Execute(reg[name].tool, input)

\* ToolRegistry::call up to the tool's first await
RegistryCall(reg, name, input) ==
    IF name \notin DOMAIN reg THEN Err(<<"Unknown tool: ", name>>)
    ELSE Execute(reg[name].tool, input)

\* The keys of the HashMap in the order values() yields them.  The order
\* depends on the hasher's random keys: it is fixed within one run and
\* unspecified across runs.
Reverse(seq) == [i \in 1..Len(seq) |-> seq[Len(seq) + 1 - i]]
IterOrders ==
    LET names == [i \in 1..Len(RegisteredTools) |-> ToolName(RegisteredTools[i])]
    IN  {names, Reverse(names)}

\* ToolRegistry::list leaving out the last value of the map
list_DropLast(reg, order) ==
    [i \in 1..(Len(order) - 1) |->
        [name |-> ToolName(reg[order[i]].tool),
         description |-> Description(reg[order[i]].tool),
         inputSchema |-> InputSchema(reg[order[i]].tool)]]

\* ToolRegistry::list
list(reg, order) ==
    [i \in 1..Len(order) |->
        [name |-> ToolName(reg[order[i]].tool),
         description |-> Description(reg[order[i]].tool),
         inputSchema |-> InputSchema(reg[order[i]].tool)]]

-----------------------------------------------------------------------------
(* prompts/list_scan_config_prompts.rs                                     *)
\* list_prompts: the one built-in PromptDef
list_prompts ==
    << [name |-> "explain_openvas_scan_configs",
        description |-> "Explain OpenVAS scan configurations returned by openvas_list_scan_configs in a structured, human-readable way.",
        arguments |-> << [name |-> "configs_json", required |-> TRUE],
                         [name |-> "user_goal", required |-> FALSE] >>] >>

\* get_prompt refusing a call that does not give the required argument
get_prompt_RequiresArguments(name, arguments) ==
    LET found == {i \in 1..Len(list_prompts) : list_prompts[i].name = name}
    IN  IF found = {} \/ arguments.t # "object"
           \/ "configs_json" \notin (arguments.str \cup arguments.other)
        THEN Err(<<"Unknown prompt: ", name>>)
        ELSE LET def == list_prompts[CHOOSE i \in found : \A j \in found : i <= j]
             IN  Ok([name |-> def.name, description |-> def.description,
                     arguments |-> def.arguments,
                     messages |-> <<[role |-> "user"]>>])

\* get_prompt working the user_goal argument into the message
get_prompt_UsesArguments(name, arguments) ==
    LET found == {i \in 1..Len(list_prompts) : list_prompts[i].name = name}
    IN  IF found = {} THEN Err(<<"Unknown prompt: ", name>>)
        ELSE LET def == list_prompts[CHOOSE i \in found : \A j \in found : i <= j]
             IN  Ok([name |-> def.name, description |-> def.description,
                     arguments |-> def.arguments,
                     messages |-> <<[role |-> IF arguments.t = "object"
                                                 /\ "user_goal" \in arguments.str
                                              THEN "user with goal" ELSE "user"]>>])

\* get_prompt: the arguments are not read
get_prompt(name, arguments) ==
    LET found == {i \in 1..Len(list_prompts) : list_prompts[i].name = name}
    IN  IF found = {} THEN Err(<<"Unknown prompt: ", name>>)
        ELSE LET def == list_prompts[CHOOSE i \in found : \A j \in found : i <= j]
             IN  Ok([name |-> def.name, description |-> def.description,
                     arguments |-> def.arguments,
                     messages |-> <<[role |-> "user"]>>])

-----------------------------------------------------------------------------
(* Deserialization.  serde's derived Deserialize for a struct accepts a    *)
(* JSON object (fields by name, unknown fields ignored) and also a JSON    *)
(* array (fields by position); any other JSON value is an error.           *)

\* ParseToolCallParams with input a required field of ToolCallParams
ParseToolCallParams_InputRequired(params) ==
    IF \/ params.t \notin {"object", "array"}
       \/ params.name \in {Absent, NonString}
       \/ params.input.t = "absent"
    THEN Err(<<"serde_json::Error">>)
    ELSE Ok([name |-> params.name, input |-> params.input])

\* serde_json::from_value::<ToolCallParams>(params); the text of the serde
\* error is not modelled
ParseToolCallParams(params) ==
    IF \/ params.t \notin {"object", "array"}
       \/ params.name \in {Absent, NonString}
    THEN Err(<<"serde_json::Error">>)
    ELSE Ok([name |-> params.name, input |-> DefaultValue(params.input)])

\* serde_json::from_value::<PromptGetParams>(params)
ParsePromptGetParams(params) ==
    IF \/ params.t \notin {"object", "array"}
       \/ params.name \in {Absent, NonString}
    THEN Err(<<"serde_json::Error">>)
    ELSE Ok([name |-> params.name, arguments |-> DefaultValue(params.arguments)])

(* An input line: blank (empty after trim), not JSON at all, a JSON value  *)
(* that is neither object nor array, or an object/array with the three     *)
(* fields of RpcRequest.  In an array the fields are positional, so a      *)
(* field can be absent only when the later ones are.                       *)
Line(shape, id, method, params) ==
    [shape |-> shape, id |-> id, method |-> method, params |-> params]

\* ParseRequest with id declared Value instead of Option<Value>: a missing
\* id becomes Value::Null and the message is taken for a request.
ParseRequest_IdNotOptional(l) ==
    IF l.shape \notin {"object", "array"} THEN Err(<<"serde_json::Error">>)
    ELSE IF l.method \in {Absent, NonString} THEN Err(<<"serde_json::Error">>)
    ELSE Ok([id |-> IF l.id = Absent THEN Some(Null) ELSE Some(l.id),
             method |-> l.method,
             params |-> IF l.params.t = "absent" THEN NullParams ELSE l.params])

\* ParseRequest keeping a null id as Some(Value::Null): only a missing id
\* makes a notification.
ParseRequest_NullIdIsSome(l) ==
    IF l.shape \notin {"object", "array"} THEN Err(<<"serde_json::Error">>)
    ELSE IF l.method \in {Absent, NonString} THEN Err(<<"serde_json::Error">>)
    ELSE Ok([id |-> IF l.id = Absent THEN None ELSE Some(l.id),
             method |-> l.method,
             params |-> IF l.params.t = "absent" THEN NullParams ELSE l.params])

\* serde_json::from_str::<RpcRequest>(line): id is Option<Value> (absent
\* or null gives None), method must be a string, params defaults to Null.
ParseRequest(l) ==
    IF l.shape \notin {"object", "array"} THEN Err(<<"serde_json::Error">>)
    ELSE IF l.method \in {Absent, NonString} THEN Err(<<"serde_json::Error">>)
    ELSE Ok([id |-> IF l.id \in {Absent, Null} THEN None ELSE Some(l.id),
             method |-> l.method,
             params |-> IF l.params.t = "absent" THEN NullParams ELSE l.params])

-----------------------------------------------------------------------------
(* Responses                                                               *)
MethodNotFound_InvalidRequest == -32600
MethodNotFound == -32601
PromptNotFound == -32601
InvalidParams == -32602
ToolError == -32000

\* fn ok
ok(id, result) ==
    [jsonrpc |-> "2.0", id |-> id, result |-> Some(result), error |-> None]

\* err_resp answering with a null id, as JSON-RPC does for parse errors
err_resp_NullId(id, code, message) ==
    [jsonrpc |-> "2.0", id |-> Null, result |-> None,
     error |-> Some([code |-> code, message |-> message])]

\* fn err_resp
err_resp(id, code, message) ==
    [jsonrpc |-> "2.0", id |-> id, result |-> None,
     error |-> Some([code |-> code, message |-> message])]

\* Serialize without skip_serializing_if: both fields are always written,
\* the None one as null
Serialize_NoSkip(resp) ==
    [k \in {"jsonrpc", "id", "result", "error"} |->
        CASE k = "jsonrpc" -> resp.jsonrpc
          [] k = "id" -> resp.id
          [] k = "result" -> resp.result
          [] k = "error" -> resp.error]

\* serde_json::to_string(&resp): result and error are skipped when None
Serialize(resp) ==
    [k \in {"jsonrpc", "id"}
           \cup (IF resp.result = None THEN {} ELSE {"result"})
           \cup (IF resp.error = None THEN {} ELSE {"error"}) |->
        CASE k = "jsonrpc" -> resp.jsonrpc
          [] k = "id" -> resp.id
          [] k = "result" -> resp.result.v
          [] k = "error" -> resp.error.v]

DefaultProtocolVersion == "2024-11-05"

\* The result of initialize with the default version whatever was sent
InitializeResult_AlwaysDefault(params) ==
    [protocolVersion |-> "2024-11-05",
     capabilities |-> [tools |-> [listChanged |-> TRUE],
                       prompts |-> [listChanged |-> TRUE]],
     serverInfo |-> [name |-> "hacker_agent", version |-> "0.1.0"]]

\* The result of initialize
InitializeResult(params) ==
    [protocolVersion |->
        IF params.t = "object" /\ params.protocolVersion \notin {Absent, NonString}
        THEN params.protocolVersion ELSE DefaultProtocolVersion,
     capabilities |-> [tools |-> [listChanged |-> TRUE],
                       prompts |-> [listChanged |-> TRUE]],
     serverInfo |-> [name |-> "hacker_agent", version |-> "0.1.0"]]

\* The match on the outcome of registry.call
ToolCallResponse(id, res) ==
    IF res.t = "Ok" THEN ok(id, [output |-> res.v])
    ELSE err_resp(id, ToolError, <<"Tool error: ">> \o res.e)

(* handle_request up to its first await.  Ready is the response; Suspended *)
(* is the future waiting on the backend.  looked tells whether the         *)
(* registry was asked for a tool.                                          *)
Ready(resp, looked) == [t |-> "Ready", resp |-> resp, looked |-> looked]
Suspended(c, looked) == [t |-> "Suspended", c |-> c, looked |-> looked]

handle_request(reg, order, id, r) ==
    CASE r.method = "initialize" ->
            Ready(ok(id, InitializeResult(r.params)), FALSE)
      [] r.method = "tools/list" ->
            Ready(ok(id, [tools |-> list(reg, order)]), FALSE)
      [] r.method = "tools/call" ->
            LET parsed == ParseToolCallParams(r.params)
            IN  IF parsed.t = "Err"
                THEN Ready(err_resp(id, InvalidParams, <<"Invalid params: ">> \o parsed.e), FALSE)
                ELSE LET res == RegistryCall(reg, parsed.v.name, parsed.v.input)
                     IN  IF res.t = "Pending" THEN Suspended(res.c, TRUE)
                         ELSE Ready(ToolCallResponse(id, res), TRUE)
      [] r.method = "prompts/list" ->
            Ready(ok(id, [prompts |-> list_prompts]), FALSE)
      [] r.method = "prompts/get" ->
            LET parsed == ParsePromptGetParams(r.params)
            IN  IF parsed.t = "Err"
                THEN Ready(err_resp(id, InvalidParams, <<"Invalid params: ">> \o parsed.e), FALSE)
                ELSE LET res == get_prompt(parsed.v.name, parsed.v.arguments)
                     IN  IF res.t = "Ok" THEN Ready(ok(id, [prompt |-> res.v]), FALSE)
                         ELSE Ready(err_resp(id, PromptNotFound, <<"Prompt not found: ">> \o res.e), FALSE)
      [] OTHER ->
            Ready(err_resp(id, MethodNotFound, <<"Method not found: ", r.method>>), FALSE)

-----------------------------------------------------------------------------
(* The lines the environment may send.                                     *)
IdVals == {"1", "\"a\""}
KnownMethods == {"initialize", "tools/list", "tools/call", "prompts/list", "prompts/get"}
OtherMethods == {"ping"}

CallNames == {"echo", "nmap_open_ports", "openvas_get_version", "comprehensive_scan"}
CallInputs == {AbsentValue, Object({"target"}, {}), Object({}, {"target"})}
PromptNames == {"explain_openvas_scan_configs", "echo"}
PromptArguments == {AbsentValue, Object({"user_goal"}, {"configs_json"})}
ProtocolVersions == {Absent, NonString, "2025-03-26"}

\* The params sent with each method.
ParamsFor(method) ==
    {AbsentParams} \cup
    CASE method = "tools/call" ->
            {ObjectParams(n, i, AbsentValue, Absent) : n \in CallNames, i \in CallInputs}
            \cup {ObjectParams(Absent, AbsentValue, AbsentValue, Absent),
                  ObjectParams(NonString, AbsentValue, AbsentValue, Absent),
                  ScalarParams,
                  ArrayParams(Absent, AbsentValue), ArrayParams(NonString, AbsentValue),
                  ArrayParams("echo", AbsentValue),
                  ArrayParams("nmap_open_ports", Object({"target"}, {}))}
      [] method = "prompts/get" ->
            {ObjectParams(n, AbsentValue, a, Absent) : n \in PromptNames, a \in PromptArguments}
            \cup {ObjectParams(Absent, AbsentValue, AbsentValue, Absent),
                  ObjectParams(NonString, AbsentValue, AbsentValue, Absent),
                  ArrayParams("explain_openvas_scan_configs", AbsentValue)}
      [] method = "initialize" ->
            {ObjectParams(Absent, AbsentValue, AbsentValue, v) : v \in ProtocolVersions}
            \cup {NullParams, ArrayParams("2025-03-26", AbsentValue)}
      [] OTHER -> {ObjectParams(Absent, AbsentValue, AbsentValue, Absent)}

\* The array form is sent with fewer combinations than the object form.
ArrayMethods == {"tools/list", "ping"}

Lines ==
    {Line(s, Absent, Absent, AbsentParams) : s \in {"blank", "notjson", "scalar"}}
    \cup {Line("object", i, m, AbsentParams) :
            i \in {Absent, Null} \cup IdVals, m \in {Absent, NonString}}
    \cup {Line("object", Null, m, AbsentParams) : m \in KnownMethods \cup OtherMethods}
    \cup {Line("array", i, m, AbsentParams) :
            i \in {Null, "1"}, m \in {Absent, NonString} \cup ArrayMethods}
    \cup {Line("array", Absent, Absent, AbsentParams)}
    \cup UNION {{Line("object", i, m, p) : i \in {Absent} \cup IdVals, p \in ParamsFor(m)} :
                    m \in KnownMethods \cup OtherMethods}

-----------------------------------------------------------------------------------------------------------------------------------------------------
(* Which arm of handle_request answered request r with response rsp.       *)
PathOf(reg, r, rsp) ==
    CASE r.method = "tools/call" ->
            IF ParseToolCallParams(r.params).t = "Err" THEN "invalid_params"
            ELSE IF ParseToolCallParams(r.params).v.name \notin DOMAIN reg THEN "unknown_tool"
            ELSE IF rsp.error # None THEN "tool_failure"
            ELSE "success"
      [] r.method = "prompts/get" ->
            IF ParsePromptGetParams(r.params).t = "Err" THEN "invalid_params"
            ELSE IF rsp.error # None THEN "prompt_not_found"
            ELSE "success"
      [] r.method \in {"initialize", "tools/list", "prompts/list"} -> "success"
      [] OTHER -> "method_not_found"

-----------------------------------------------------------------------------
(* The state of main: where the loop stands (pc), the registry built       *)
(* before the loop and its iteration order, the line, request, backend     *)
(* call and response in hand, and what was written to stdout (output).     *)
(* The other variables record the history: the ids of the requests taken   *)
(* on (accepted), the arm that answered each (paths), the lines that were  *)
(* skipped (skipped), the lines read (nread), the HTTP requests sent       *)
(* (backendCalls) and the registry lookups made (lookups).  registered is  *)
(* the history of the registry: the tools handed to register, in order.    *)
(* request is the NmapScanRequest build_command is called on and cmd the   *)
(* vector it returned.  stealthInput is the input StealthScanTool::execute *)
(* is called with and stealthBody what it came to: the body it posts.      *)
VARIABLES pc, registry, order, line, req, call, resp, output,
          accepted, paths, skipped, nread, backendCalls, lookups,
          registered, request, cmd, stealthInput, stealthBody

vars == <<pc, registry, order, line, req, call, resp, output,
          accepted, paths, skipped, nread, backendCalls, lookups,
          registered, request, cmd, stealthInput, stealthBody>>

\* What the message loop never writes.
otherVars == <<registered, request, cmd, stealthInput, stealthBody>>

Init ==
    /\ pc = "await"
    /\ registry = register_all_tools(EmptyRegistry)
    /\ order \in IterOrders
    /\ line = None
    /\ req = None
    /\ call = None
    /\ resp = None
    /\ output = << >>
    /\ accepted = << >>
    /\ paths = << >>
    /\ skipped = {}
    /\ nread = 0
    /\ backendCalls = 0
    /\ lookups = 0
    /\ registered = RegisteredTools
    /\ request = None
    /\ cmd = None
    /\ stealthInput = None
    /\ stealthBody = None

\* ReadLine taking the next line while the backend call is still out
ReadLine_WhileCalling ==
    /\ pc \in {"await", "calling"}
    /\ nread < MaxLines
    /\ \E l \in Lines : line' = Some(l)
    /\ nread' = nread + 1
    /\ pc' = "parse"
    /\ UNCHANGED <<registry, order, req, call, resp, output, accepted, paths, skipped,
                   backendCalls, lookups>>
    /\ UNCHANGED otherVars

\* reader.next_line() yields a line
ReadLine ==
    /\ pc = "await"
    /\ nread < MaxLines
    /\ \E l \in Lines : line' = Some(l)
    /\ nread' = nread + 1
    /\ pc' = "parse"
    /\ UNCHANGED <<registry, order, req, call, resp, output, accepted, paths, skipped,
                   backendCalls, lookups>>
    /\ UNCHANGED otherVars

\* ReadEof ending main as soon as the input ends, a request in hand or
\* not
ReadEof_DropsPending ==
    /\ pc \in {"await", "dispatch", "calling", "resume", "respond"}
    /\ pc' = "done"
    /\ UNCHANGED <<registry, order, line, req, call, resp, output, accepted, paths,
                   skipped, nread, backendCalls, lookups>>
    /\ UNCHANGED otherVars

\* reader.next_line() yields None: the loop ends and main returns Ok(())
ReadEof ==
    /\ pc = "await"
    /\ pc' = "done"
    /\ UNCHANGED <<registry, order, line, req, call, resp, output, accepted, paths,
                   skipped, nread, backendCalls, lookups>>
    /\ UNCHANGED otherVars

\* reader.next_line() fails (I/O error, or bytes that are not UTF-8):
\* the ? makes main return the error
ReadError ==
    /\ pc = "await"
    /\ pc' = "failed"
    /\ UNCHANGED <<registry, order, line, req, call, resp, output, accepted, paths,
                   skipped, nread, backendCalls, lookups>>
    /\ UNCHANGED otherVars

\* the record of a skipped line
Skipped(kind, l) == [kind |-> kind, shape |-> l.shape, method |-> l.method]

\* line.trim().is_empty() => continue
SkipBlank ==
    /\ pc = "parse"
    /\ line.v.shape = "blank"
    /\ pc' = "await"
    /\ line' = None
    /\ skipped' = skipped \cup {Skipped("blank", line.v)}
    /\ UNCHANGED <<registry, order, req, call, resp, output, accepted, paths, nread,
                   backendCalls, lookups>>
    /\ UNCHANGED otherVars

\* serde_json::from_str fails => continue
SkipUnparsable ==
    /\ pc = "parse"
    /\ line.v.shape # "blank"
    /\ ParseRequest(line.v).t = "Err"
    /\ pc' = "await"
    /\ line' = None
    /\ skipped' = skipped \cup {Skipped("unparsable", line.v)}
    /\ UNCHANGED <<registry, order, req, call, resp, output, accepted, paths, nread,
                   backendCalls, lookups>>
    /\ UNCHANGED otherVars

\* SkipNotification handing the message to handle_request before it
\* drops the response
SkipNotification_RunsHandler ==
    /\ pc = "parse"
    /\ line.v.shape # "blank"
    /\ ParseRequest(line.v).t = "Ok"
    /\ ParseRequest(line.v).v.id = None
    /\ LET h == handle_request(registry, order, Null, ParseRequest(line.v).v)
       IN  /\ lookups' = IF h.looked THEN lookups + 1 ELSE lookups
           /\ backendCalls' = IF h.t = "Suspended" THEN backendCalls + 1 ELSE backendCalls
    /\ pc' = "await"
    /\ line' = None
    /\ skipped' = skipped \cup {Skipped("notification", line.v)}
    /\ UNCHANGED <<registry, order, req, call, resp, output, accepted, paths, nread>>
    /\ UNCHANGED otherVars

\* let Some(id) = req.id.clone() else { continue }
SkipNotification ==
    /\ pc = "parse"
    /\ line.v.shape # "blank"
    /\ ParseRequest(line.v).t = "Ok"
    /\ ParseRequest(line.v).v.id = None
    /\ pc' = "await"
    /\ line' = None
    /\ skipped' = skipped \cup {Skipped("notification", line.v)}
    /\ UNCHANGED <<registry, order, req, call, resp, output, accepted, paths, nread,
                   backendCalls, lookups>>
    /\ UNCHANGED otherVars

\* the line is a request with an id: it goes to handle_request
AcceptRequest ==
    /\ pc = "parse"
    /\ line.v.shape # "blank"
    /\ ParseRequest(line.v).t = "Ok"
    /\ ParseRequest(line.v).v.id # None
    /\ req' = Some(ParseRequest(line.v).v)
    /\ accepted' = Append(accepted, ParseRequest(line.v).v.id.v)
    /\ pc' = "dispatch"
    /\ UNCHANGED <<registry, order, line, call, resp, output, paths, skipped, nread,
                   backendCalls, lookups>>
    /\ UNCHANGED otherVars

\* Dispatch taking the called tool out of the map (remove in the place of
\* get in ToolRegistry::call)
Dispatch_RemoveCalled ==
    /\ pc = "dispatch"
    /\ LET h == handle_request(registry, order, req.v.id.v, req.v)
       IN  /\ lookups' = IF h.looked THEN lookups + 1 ELSE lookups
           /\ registry' = IF h.looked
                           THEN [n \in DOMAIN registry \ {req.v.params.name} |-> registry[n]]
                           ELSE registry
           /\ IF h.t = "Ready"
              THEN /\ resp' = Some(h.resp)
                   /\ paths' = Append(paths, PathOf(registry, req.v, h.resp))
                   /\ pc' = "respond"
                   /\ UNCHANGED <<call, backendCalls>>
              ELSE /\ call' = Some([url |-> h.c.url, outcome |-> "pending"])
                   /\ backendCalls' = backendCalls + 1
                   /\ pc' = "calling"
                   /\ UNCHANGED <<resp, paths>>
    /\ UNCHANGED <<order, line, req, output, accepted, skipped, nread>>
    /\ UNCHANGED otherVars

\* Dispatch remembering the ids it has seen: a request whose id was used
\* by an earlier request is refused
Dispatch_RejectRepeatedId ==
    /\ pc = "dispatch"
    /\ LET seen == \E i \in 1..(Len(accepted) - 1) : accepted[i] = req.v.id.v
           h == IF seen
                THEN [t |-> "Ready", looked |-> FALSE,
                      resp |-> [jsonrpc |-> "2.0", id |-> req.v.id.v, result |-> None,
                                error |-> Some([code |-> MethodNotFound_InvalidRequest,
                                                message |-> <<"Duplicate id">>])]]
                ELSE handle_request(registry, order, req.v.id.v, req.v)
       IN  /\ lookups' = IF h.looked THEN lookups + 1 ELSE lookups
           /\ IF h.t = "Ready"
              THEN /\ resp' = Some(h.resp)
                   /\ paths' = Append(paths, PathOf(registry, req.v, h.resp))
                   /\ pc' = "respond"
                   /\ UNCHANGED <<call, backendCalls>>
              ELSE /\ call' = Some([url |-> h.c.url, outcome |-> "pending"])
                   /\ backendCalls' = backendCalls + 1
                   /\ pc' = "calling"
                   /\ UNCHANGED <<resp, paths>>
    /\ UNCHANGED <<registry, order, line, req, output, accepted, skipped, nread>>
    /\ UNCHANGED otherVars

\* Dispatch keeping a session: until an initialize has been answered
\* every other method is refused
Dispatch_RequiresInitialize ==
    /\ pc = "dispatch"
    /\ LET initialized == \E i \in 1..Len(output) :
                              /\ "result" \in DOMAIN output[i]
                              /\ "protocolVersion" \in DOMAIN output[i].result
           h == IF req.v.method # "initialize" /\ ~initialized
                THEN [t |-> "Ready", looked |-> FALSE,
                      resp |-> [jsonrpc |-> "2.0", id |-> req.v.id.v, result |-> None,
                                error |-> Some([code |-> MethodNotFound_InvalidRequest,
                                                message |-> <<"Not initialized">>])]]
                ELSE handle_request(registry, order, req.v.id.v, req.v)
       IN  /\ lookups' = IF h.looked THEN lookups + 1 ELSE lookups
           /\ IF h.t = "Ready"
              THEN /\ resp' = Some(h.resp)
                   /\ paths' = Append(paths, PathOf(registry, req.v, h.resp))
                   /\ pc' = "respond"
                   /\ UNCHANGED <<call, backendCalls>>
              ELSE /\ call' = Some([url |-> h.c.url, outcome |-> "pending"])
                   /\ backendCalls' = backendCalls + 1
                   /\ pc' = "calling"
                   /\ UNCHANGED <<resp, paths>>
    /\ UNCHANGED <<registry, order, line, req, output, accepted, skipped, nread>>
    /\ UNCHANGED otherVars

\* handle_request runs until it returns or suspends on the backend
Dispatch ==
    /\ pc = "dispatch"
    /\ LET h == handle_request(registry, order, req.v.id.v, req.v)
       IN  /\ lookups' = IF h.looked THEN lookups + 1 ELSE lookups
           /\ IF h.t = "Ready"
              THEN /\ resp' = Some(h.resp)
                   /\ paths' = Append(paths, PathOf(registry, req.v, h.resp))
                   /\ pc' = "respond"
                   /\ UNCHANGED <<call, backendCalls>>
              ELSE /\ call' = Some([url |-> h.c.url, outcome |-> "pending"])
                   /\ backendCalls' = backendCalls + 1
                   /\ pc' = "calling"
                   /\ UNCHANGED <<resp, paths>>
    /\ UNCHANGED <<registry, order, line, req, output, accepted, skipped, nread>>
    /\ UNCHANGED otherVars

\* the HTTP exchange with the backend ends, well or badly
BackendRespond ==
    /\ pc = "calling"
    /\ \E outcome \in BackendOutcomes : call' = Some([call.v EXCEPT !.outcome = outcome])
    /\ pc' = "resume"
    /\ UNCHANGED <<registry, order, line, req, resp, output, accepted, paths, skipped,
                   nread, backendCalls, lookups>>
    /\ UNCHANGED otherVars

\* Resume sending a failed call a second time, as a new HTTP request
Resume_RetryCounted ==
    /\ pc = "resume"
    /\ IF call.v.outcome # "ok" /\ backendCalls < MaxLines
       THEN /\ call' = Some([call.v EXCEPT !.outcome = "pending"])
            /\ backendCalls' = backendCalls + 1
            /\ pc' = "calling"
            /\ UNCHANGED <<resp, paths>>
       ELSE LET r == IF call.v.outcome = "ok"
                     THEN ok(req.v.id.v, [output |-> [t |-> "body"]])
                     ELSE err_resp(req.v.id.v, ToolError, <<"Tool error: ", "reqwest::Error">>)
            IN  /\ resp' = Some(r)
                /\ paths' = Append(paths, IF call.v.outcome = "ok" THEN "success"
                                          ELSE "tool_failure")
                /\ call' = None
                /\ pc' = "respond"
                /\ UNCHANGED backendCalls
    /\ UNCHANGED <<registry, order, line, req, output, accepted, skipped, nread, lookups>>
    /\ UNCHANGED otherVars

\* Resume sending the call again when it failed
Resume_RetryOnFailure ==
    /\ pc = "resume"
    /\ IF call.v.outcome = "ok"
       THEN LET r == ToolCallResponse(req.v.id.v, Ok([t |-> "body"]))
            IN  /\ resp' = Some(r)
                /\ paths' = Append(paths, "success")
                /\ call' = None
                /\ pc' = "respond"
       ELSE /\ call' = Some([call.v EXCEPT !.outcome = "pending"])
            /\ pc' = "calling"
            /\ UNCHANGED <<resp, paths>>
    /\ UNCHANGED <<registry, order, line, req, output, accepted, skipped, nread,
                   backendCalls, lookups>>
    /\ UNCHANGED otherVars

\* the suspended handle_request resumes with the outcome and returns
Resume ==
    /\ pc = "resume"
    /\ LET r == ToolCallResponse(req.v.id.v, BackendResult(call.v, call.v.outcome))
       IN  /\ resp' = Some(r)
           /\ paths' = Append(paths, PathOf(registry, req.v, r))
    /\ call' = None
    /\ pc' = "respond"
    /\ UNCHANGED <<registry, order, line, req, output, accepted, skipped, nread,
                   backendCalls, lookups>>
    /\ UNCHANGED otherVars

\* WriteResponse writing only the successes
WriteResponse_DropErrors ==
    /\ pc = "respond"
    /\ output' = IF resp.v.error # None THEN output ELSE Append(output, Serialize(resp.v))
    /\ pc' = "await"
    /\ line' = None
    /\ req' = None
    /\ resp' = None
    /\ UNCHANGED <<registry, order, call, accepted, paths, skipped, nread,
                   backendCalls, lookups>>
    /\ UNCHANGED otherVars

\* to_string, write_all, write_all("\n"), flush
WriteResponse ==
    /\ pc = "respond"
    /\ output' = Append(output, Serialize(resp.v))
    /\ pc' = "await"
    /\ line' = None
    /\ req' = None
    /\ resp' = None
    /\ UNCHANGED <<registry, order, call, accepted, paths, skipped, nread,
                   backendCalls, lookups>>
    /\ UNCHANGED otherVars

\* a write or the flush fails: the ? makes main return the error
WriteError ==
    /\ pc = "respond"
    /\ pc' = "failed"
    /\ UNCHANGED <<registry, order, line, req, call, resp, output, accepted, paths,
                   skipped, nread, backendCalls, lookups>>
    /\ UNCHANGED otherVars

Next ==
    \/ ReadLine
    \/ ReadEof
    \/ ReadError
    \/ SkipBlank
    \/ SkipUnparsable
    \/ SkipNotification
    \/ AcceptRequest
    \/ Dispatch
    \/ BackendRespond
    \/ Resume
    \/ WriteResponse
    \/ WriteError

Spec == Init /\ [][Next]_vars

(* The loop under the scheduling of the runtime: main is the one task of  *)
(* the runtime, so a line in hand is classified, a request in hand is     *)
(* dispatched, a handle_request whose backend call has ended is resumed   *)
(* and a response in hand is written (or the write fails).  What the      *)
(* environment does (sending lines, answering backend calls) is not       *)
(* assumed here.  The lines sent are one of each kind the loop tells      *)
(* apart: blank, not JSON, notification, request answered at once,        *)
(* request that goes to the backend.                                      *)
LiveLines ==
    {Line("blank", Absent, Absent, AbsentParams),
     Line("notjson", Absent, Absent, AbsentParams),
     Line("object", Absent, "tools/call", AbsentParams),
     Line("object", "1", "tools/list", AbsentParams),
     Line("object", "1", "tools/call",
          ObjectParams("openvas_get_version", AbsentValue, AbsentValue, Absent)),
     Line("object", "\"a\"", "tools/call",
          ObjectParams("nmap_open_ports", Object({"target"}, {}), AbsentValue, Absent))}

\* reader.next_line() yields one of LiveLines
ReadLiveLine ==
    /\ pc = "await"
    /\ nread < MaxLines
    /\ \E l \in LiveLines : line' = Some(l)
    /\ nread' = nread + 1
    /\ pc' = "parse"
    /\ UNCHANGED <<registry, order, req, call, resp, output, accepted, paths, skipped,
                   backendCalls, lookups>>
    /\ UNCHANGED otherVars

Classify == SkipBlank \/ SkipUnparsable \/ SkipNotification \/ AcceptRequest
Write == WriteResponse \/ WriteError

NextLive ==
    \/ ReadLiveLine
    \/ ReadEof
    \/ ReadError
    \/ Classify
    \/ Dispatch
    \/ BackendRespond
    \/ Resume
    \/ Write

SpecLive ==
    /\ Init
    /\ [][NextLive]_vars
    /\ WF_vars(Classify)
    /\ WF_vars(Dispatch)
    /\ WF_vars(Resume)
    /\ WF_vars(Write)

-----------------------------------------------------------------------------
(* The loop fed with ids of every kind of JSON value.  id is a             *)
(* serde_json::Value: it is written here as the JSON text of the value.    *)
(* A tools/call without id is not among the lines, so that a skipped       *)
(* tools/call notification is one whose id was null.                       *)
AllIdVals == IdVals \cup {"true", "[1]", "{\"k\":1}"}

IdLines ==
    {Line("blank", Absent, Absent, AbsentParams),
     Line("notjson", Absent, Absent, AbsentParams),
     Line("object", Absent, "ping", AbsentParams)}
    \cup {Line("object", i, m, AbsentParams) :
            i \in {Null} \cup AllIdVals, m \in {"tools/list", "ping", "tools/call"}}
    \cup {Line("object", i, "tools/call",
                ObjectParams("openvas_get_version", AbsentValue, AbsentValue, Absent)) :
            i \in {Null} \cup AllIdVals}
    \cup {Line("array", i, "tools/list", AbsentParams) : i \in {Null, "[1]"}}

\* reader.next_line() yields one of IdLines
ReadIdLine ==
    /\ pc = "await"
    /\ nread < MaxLines
    /\ \E l \in IdLines : line' = Some(l)
    /\ nread' = nread + 1
    /\ pc' = "parse"
    /\ UNCHANGED <<registry, order, req, call, resp, output, accepted, paths, skipped,
                   backendCalls, lookups>>
    /\ UNCHANGED otherVars

NextIds ==
    \/ ReadIdLine
    \/ ReadEof
    \/ ReadError
    \/ SkipBlank
    \/ SkipUnparsable
    \/ SkipNotification
    \/ AcceptRequest
    \/ Dispatch
    \/ BackendRespond
    \/ Resume
    \/ WriteResponse
    \/ WriteError

SpecIds == Init /\ [][NextIds]_vars

-----------------------------------------------------------------------------
(* The loop fed with the messages of a session: initialize with and        *)
(* without a version, the four other methods with params that are in       *)
(* order (prompts/get with any arguments), and tools/call sent as a        *)
(* notification, always with a registered name and the input the tool      *)
(* asks for.                                                               *)
\* the arguments of a prompts/get: none, null, and objects that give or
\* leave out configs_json (marked required) and user_goal
AllPromptArguments ==
    {AbsentValue, NullValue, Object({}, {}), Object({"user_goal"}, {}),
     Object({"configs_json"}, {}), Object({"user_goal"}, {"configs_json"})}

SessionLines ==
    {Line("blank", Absent, Absent, AbsentParams),
     Line("notjson", Absent, Absent, AbsentParams),
     Line("object", Absent, "tools/call",
          ObjectParams("nmap_open_ports", Object({"target"}, {}), AbsentValue, Absent)),
     Line("object", Absent, "tools/call",
          ObjectParams("openvas_get_version", AbsentValue, AbsentValue, Absent)),
     Line("object", "1", "initialize", NullParams),
     Line("object", "1", "initialize",
          ObjectParams(Absent, AbsentValue, AbsentValue, "2025-03-26")),
     Line("object", "1", "tools/list", AbsentParams),
     Line("object", "1", "tools/call",
          ObjectParams("echo", Object({"target"}, {}), AbsentValue, Absent)),
     Line("object", "1", "tools/call",
          ObjectParams("openvas_get_version", AbsentValue, AbsentValue, Absent)),
     Line("object", "1", "prompts/list", AbsentParams)}
    \cup {Line("object", "1", "prompts/get", ObjectParams(n, AbsentValue, a, Absent)) :
            n \in PromptNames, a \in AllPromptArguments}

\* reader.next_line() yields one of SessionLines
ReadSessionLine ==
    /\ pc = "await"
    /\ nread < MaxLines
    /\ \E l \in SessionLines : line' = Some(l)
    /\ nread' = nread + 1
    /\ pc' = "parse"
    /\ UNCHANGED <<registry, order, req, call, resp, output, accepted, paths, skipped,
                   backendCalls, lookups>>
    /\ UNCHANGED otherVars

NextSession ==
    \/ ReadSessionLine
    \/ ReadEof
    \/ ReadError
    \/ SkipBlank
    \/ SkipUnparsable
    \/ SkipNotification
    \/ AcceptRequest
    \/ Dispatch
    \/ BackendRespond
    \/ Resume
    \/ WriteResponse
    \/ WriteError

SpecSession == Init /\ [][NextSession]_vars

-----------------------------------------------------------------------------
(* ToolRegistry on its own: new(), then register called with any tools in *)
(* any order, a tool more than once included.  order is the order in      *)
(* which the map is then iterated.                                        *)
MaxRegistrations == 3

\* every impl Tool of the crate, registered by register_all_tools or not
ToolStructs ==
    {RegisteredTools[i] : i \in 1..Len(RegisteredTools)}
        \cup {"ComprehensiveScanTool", "NetworkDiscoveryTool"}

\* The names of tools, each once, in the order they first appear.
RECURSIVE Keys(_)
Keys(tools) ==
    IF tools = << >> THEN << >>
    ELSE LET front == Keys(SubSeq(tools, 1, Len(tools) - 1))
             name == ToolName(tools[Len(tools)])
         IN  IF \E i \in 1..Len(front) : front[i] = name THEN front
             ELSE Append(front, name)

\* ToolRegistry::new()
InitRegister ==
    /\ pc = "startup"
    /\ registry = EmptyRegistry
    /\ order = << >>
    /\ registered = << >>
    /\ line = None
    /\ req = None
    /\ call = None
    /\ resp = None
    /\ output = << >>
    /\ accepted = << >>
    /\ paths = << >>
    /\ skipped = {}
    /\ nread = 0
    /\ backendCalls = 0
    /\ lookups = 0
    /\ request = None
    /\ cmd = None
    /\ stealthInput = None
    /\ stealthBody = None

\* registry.register(tool)
RegisterTool ==
    /\ pc = "startup"
    /\ Len(registered) < MaxRegistrations
    /\ \E tool \in ToolStructs :
          /\ registry' = register(registry, tool, Len(registered) + 1)
          /\ registered' = Append(registered, tool)
          /\ order' \in {Keys(registered'), Reverse(Keys(registered'))}
    /\ UNCHANGED <<pc, line, req, call, resp, output, accepted, paths, skipped, nread,
                   backendCalls, lookups, request, cmd, stealthInput,
                   stealthBody>>

NextRegister == RegisterTool

SpecRegister == InitRegister /\ [][NextRegister]_vars

-----------------------------------------------------------------------------
(* The loop fed with tools/call for every tool of the crate, registered or *)
(* not.  The input is absent, or an object that gives each required field  *)
(* of the tool as a string, as a value that is not a string, or not at     *)
(* all, in every combination.                                              *)
AllToolNames == {ToolName(tool) : tool \in ToolStructs}

FieldInputs(tool) ==
    LET fields == {RequiredFields(tool)[i] : i \in 1..Len(RequiredFields(tool))}
    IN  {o \in {Object(given, wrong) : given \in SUBSET fields, wrong \in SUBSET fields} :
            o.str \cap o.other = {}}

CallLines ==
    {Line("blank", Absent, Absent, AbsentParams),
     Line("notjson", Absent, Absent, AbsentParams),
     Line("object", Absent, "tools/list", AbsentParams),
     Line("object", "1", "tools/list", AbsentParams)}
    \cup UNION {{Line("object", "1", "tools/call",
                      ObjectParams(ToolName(tool), input, AbsentValue, Absent)) :
                    input \in {AbsentValue} \cup FieldInputs(tool)} : tool \in ToolStructs}

\* reader.next_line() yields one of CallLines
ReadCallLine ==
    /\ pc = "await"
    /\ nread < MaxLines
    /\ \E l \in CallLines : line' = Some(l)
    /\ nread' = nread + 1
    /\ pc' = "parse"
    /\ UNCHANGED <<registry, order, req, call, resp, output, accepted, paths, skipped,
                   backendCalls, lookups>>
    /\ UNCHANGED otherVars

NextCalls ==
    \/ ReadCallLine
    \/ ReadEof
    \/ ReadError
    \/ SkipBlank
    \/ SkipUnparsable
    \/ SkipNotification
    \/ AcceptRequest
    \/ Dispatch
    \/ BackendRespond
    \/ Resume
    \/ WriteResponse
    \/ WriteError

SpecCalls == Init /\ [][NextCalls]_vars

-----------------------------------------------------------------------------
(* models/nmap_scan.rs: NmapScanRequest and build_command.  A token is a   *)
(* String, built as format! builds it.                                     *)

\* format!("{}", n) of an unsigned integer
Display(n) == ToString(n)

\* [String]::join(sep)
RECURSIVE Join(_, _)
Join(strs, sep) ==
    IF strs = << >> THEN ""
    ELSE IF Len(strs) = 1 THEN strs[1]
    ELSE strs[1] \o sep \o Join(Tail(strs), sep)

\* format!("{:?}", category) without to_lowercase()
DebugLower_NoLowercase(category) == category

\* format!("{:?}", category).to_lowercase()
DebugLower(category) ==
    CASE category = "Auth" -> "auth"
      [] category = "Default" -> "default"
      [] category = "Discovery" -> "discovery"
      [] category = "Dos" -> "dos"
      [] category = "Exploit" -> "exploit"
      [] category = "External" -> "external"
      [] category = "Fuzzer" -> "fuzzer"
      [] category = "Intrusive" -> "intrusive"
      [] category = "Malware" -> "malware"
      [] category = "Safe" -> "safe"
      [] category = "Version" -> "version"
      [] category = "Vuln" -> "vuln"
      [] category = "Brute" -> "brute"
      [] category = "Broadcast" -> "broadcast"
      [] category = "Meterpreter" -> "meterpreter"
      [] category = "Sniffer" -> "sniffer"

\* the struct NmapScanRequest and the structs and enums of its fields
NmapScanRequest(target, timing, scan_type, port_specification, service_detection, os_detection, script_scan, output_format, stealth_options) ==
    [target |-> target, timing |-> timing, scan_type |-> scan_type,
     port_specification |-> port_specification,
     service_detection |-> service_detection, os_detection |-> os_detection,
     script_scan |-> script_scan, output_format |-> output_format,
     stealth_options |-> stealth_options]

PortSpecAll == [variant |-> "All"]
PortSpecTopPorts(n) == [variant |-> "TopPorts", n |-> n]
PortSpecSpecific(port_list) == [variant |-> "Specific", port_list |-> port_list]
PortSpecRange(range) == [variant |-> "Range", range |-> range]
PortSpecCommon == [variant |-> "Common"]

ServiceDetection(enabled, intensity, all_ports) ==
    [enabled |-> enabled, intensity |-> intensity, all_ports |-> all_ports]

ScriptScan(scripts, args, categories) ==
    [scripts |-> scripts, args |-> args, categories |-> categories]

StealthOptions(decoys, source_port, interface, ttl, randomize_hosts, spoof_ip, spoof_mac) ==
    [decoys |-> decoys, source_port |-> source_port, interface |-> interface,
     ttl |-> ttl, randomize_hosts |-> randomize_hosts, spoof_ip |-> spoof_ip,
     spoof_mac |-> spoof_mac]

\* The tokens each block of build_command pushes.
TimingTokens(timing) ==
    IF timing = None THEN << >>
    ELSE << "-T" \o (CASE timing.v = "T0" -> "0"
                       [] timing.v = "T1" -> "1"
                       [] timing.v = "T2" -> "2"
                       [] timing.v = "T3" -> "3"
                       [] timing.v = "T4" -> "4"
                       [] timing.v = "T5" -> "5") >>

\* the scan type block with TcpScan compiled as a connect scan
ScanTypeTokens_TcpScanConnect(scan_type) ==
    IF scan_type = None THEN << >>
    ELSE << CASE scan_type.v = "PingScan" -> "-sn"
              [] scan_type.v = "TcpScan" -> "-sT"
              [] scan_type.v = "TcpConnectScan" -> "-sT"
              [] scan_type.v = "UdpScan" -> "-sU"
              [] scan_type.v = "TcpSynScan" -> "-sS"
              [] scan_type.v = "TcpAckScan" -> "-sA"
              [] scan_type.v = "TcpWindowScan" -> "-sW"
              [] scan_type.v = "TcpMaimonScan" -> "-sM"
              [] scan_type.v = "TcpFinScan" -> "-sF"
              [] scan_type.v = "TcpNullScan" -> "-sN"
              [] scan_type.v = "TcpXmasScan" -> "-sX" >>

ScanTypeTokens(scan_type) ==
    IF scan_type = None THEN << >>
    ELSE << CASE scan_type.v = "PingScan" -> "-sn"
              [] scan_type.v = "TcpScan" -> "-sS"
              [] scan_type.v = "TcpConnectScan" -> "-sT"
              [] scan_type.v = "UdpScan" -> "-sU"
              [] scan_type.v = "TcpSynScan" -> "-sS"
              [] scan_type.v = "TcpAckScan" -> "-sA"
              [] scan_type.v = "TcpWindowScan" -> "-sW"
              [] scan_type.v = "TcpMaimonScan" -> "-sM"
              [] scan_type.v = "TcpFinScan" -> "-sF"
              [] scan_type.v = "TcpNullScan" -> "-sN"
              [] scan_type.v = "TcpXmasScan" -> "-sX" >>

PortTokens(ports) ==
    IF ports = None THEN << >>
    ELSE CASE ports.v.variant = "All" -> << "-p-" >>
           [] ports.v.variant = "TopPorts" -> << "--top-ports " \o Display(ports.v.n) >>
           [] ports.v.variant = "Specific" -> << "-p " \o Join(ports.v.port_list, ",") >>
           [] ports.v.variant = "Range" -> << "-p " \o ports.v.range >>
           [] ports.v.variant = "Common" -> << >>

\* the service detection block without the test of enabled
ServiceTokens_IgnoreEnabled(service_detection) ==
    IF service_detection = None THEN << >>
    ELSE << "-sV" >>
         \o (IF service_detection.v.intensity = None THEN << >>
             ELSE << "--version-intensity " \o ToString(service_detection.v.intensity.v) >>)
         \o (IF service_detection.v.all_ports THEN << "--all-ports" >> ELSE << >>)

ServiceTokens(service_detection) ==
    IF service_detection = None THEN << >>
    ELSE IF ~service_detection.v.enabled THEN << >>
    ELSE << "-sV" >>
         \o (IF service_detection.v.intensity = None THEN << >>
             ELSE << "--version-intensity " \o Display(service_detection.v.intensity.v) >>)
         \o (IF service_detection.v.all_ports THEN << "--all-ports" >> ELSE << >>)

\* the OS detection block pushing its flag whatever the field says
OsTokens_Always(os_detection) == << "-O" >>

\* if self.os_detection { cmd.push("-O") }
OsTokens(os_detection) == IF os_detection THEN << "-O" >> ELSE << >>

ScriptTokens(script_scan) ==
    IF script_scan = None THEN << >>
    ELSE (IF script_scan.v.scripts # << >>
          THEN << "--script " \o Join(script_scan.v.scripts, ",") >> ELSE << >>)
         \o (IF script_scan.v.categories # << >>
             THEN << "--script " \o
                     Join([i \in 1..Len(script_scan.v.categories) |->
                              DebugLower(script_scan.v.categories[i])], ",") >>
             ELSE << >>)
         \o (IF script_scan.v.args = None THEN << >>
             ELSE << "--script-args " \o script_scan.v.args.v >>)

\* the output format block with a flag for the default format too
OutputTokens_NormalFlag(output_format) ==
    IF output_format = None THEN << >>
    ELSE CASE output_format.v = "Xml" -> << "-oX" >>
           [] output_format.v = "Json" -> << "-oJ" >>
           [] output_format.v = "Greppable" -> << "-oG" >>
           [] output_format.v = "All" -> << "-oA" >>
           [] output_format.v = "Normal" -> << "-oN" >>

OutputTokens(output_format) ==
    IF output_format = None THEN << >>
    ELSE CASE output_format.v = "Xml" -> << "-oX" >>
           [] output_format.v = "Json" -> << "-oJ" >>
           [] output_format.v = "Greppable" -> << "-oG" >>
           [] output_format.v = "All" -> << "-oA" >>
           [] output_format.v = "Normal" -> << >>

StealthTokens(stealth_options) ==
    IF stealth_options = None THEN << >>
    ELSE LET stealth == stealth_options.v
         IN  (IF stealth.decoys = None THEN << >>
              ELSE << "-D " \o Join(stealth.decoys.v, ",") >>)
             \o (IF stealth.source_port = None THEN << >>
                 ELSE << "--source-port " \o Display(stealth.source_port.v) >>)
             \o (IF stealth.interface = None THEN << >>
                 ELSE << "-e " \o stealth.interface.v >>)
             \o (IF stealth.ttl = None THEN << >>
                 ELSE << "--ttl " \o Display(stealth.ttl.v) >>)
             \o (IF stealth.randomize_hosts THEN << "--randomize-hosts" >> ELSE << >>)
             \o (IF stealth.spoof_ip = None THEN << >>
                 ELSE << "-S " \o stealth.spoof_ip.v >>)
             \o (IF stealth.spoof_mac = None THEN << >>
                 ELSE << "--spoof-mac " \o stealth.spoof_mac.v >>)

\* build_command pushing the output format ahead of the script flags
build_command_OutputBeforeScripts(self) ==
    << "nmap" >>
    \o TimingTokens(self.timing)
    \o ScanTypeTokens(self.scan_type)
    \o PortTokens(self.port_specification)
    \o ServiceTokens(self.service_detection)
    \o OsTokens(self.os_detection)
    \o OutputTokens(self.output_format)
    \o ScriptTokens(self.script_scan)
    \o StealthTokens(self.stealth_options)
    \o << self.target >>

\* NmapScanRequest::build_command
build_command(self) ==
    << "nmap" >>
    \o TimingTokens(self.timing)
    \o ScanTypeTokens(self.scan_type)
    \o PortTokens(self.port_specification)
    \o ServiceTokens(self.service_detection)
    \o OsTokens(self.os_detection)
    \o ScriptTokens(self.script_scan)
    \o OutputTokens(self.output_format)
    \o StealthTokens(self.stealth_options)
    \o << self.target >>

(* The records build_command is called on: every combination of the       *)
(* values below (ProductRequests), and the records that differ from the   *)
(* empty record in one field, that field going through its variants and   *)
(* the ends of its numeric range (SweepRequests).                         *)
Targets == {"scanme.nmap.org", "192.168.1.0/24"}
Timings == {None, Some("T4")}
ScanTypes == {None, Some("TcpSynScan")}
PortSpecs ==
    {None, Some(PortSpecTopPorts(100)), Some(PortSpecSpecific(<<"80", "443">>)),
     Some(PortSpecCommon)}
ServiceDetections ==
    {None, Some(ServiceDetection(FALSE, Some(5), TRUE)),
     Some(ServiceDetection(TRUE, Some(5), TRUE))}
ScriptScans ==
    {None, Some(ScriptScan(<< >>, Some("user=admin"), << >>)),
     Some(ScriptScan(<<"http-title", "ssl-cert">>, Some("user=admin"), <<"Vuln", "Safe">>))}
OutputFormats == {None, Some("Normal"), Some("Xml")}
StealthOptionSets ==
    {None,
     Some(StealthOptions(Some(<< >>), None, None, None, FALSE, None, None)),
     Some(StealthOptions(Some(<<"10.0.0.1", "10.0.0.2">>), Some(53), Some("eth0"),
                         Some(64), TRUE, Some("10.0.0.9"), Some("00:11:22:33:44:55")))}

ProductRequests ==
    {NmapScanRequest(target, timing, scan_type, ports, service, os, scripts, format, stealth) :
        target \in Targets, timing \in Timings, scan_type \in ScanTypes,
        ports \in PortSpecs, service \in ServiceDetections, os \in BOOLEAN,
        scripts \in ScriptScans, format \in OutputFormats, stealth \in StealthOptionSets}

\* the record with a target and nothing else
EmptyRequest(target) == NmapScanRequest(target, None, None, None, None, FALSE, None, None, None)

AllTargets == Targets \cup {"", "-oX", "a b"}
AllTimings == {"T0", "T1", "T2", "T3", "T4", "T5"}
AllScanTypes ==
    {"PingScan", "TcpScan", "TcpConnectScan", "UdpScan", "TcpSynScan", "TcpAckScan",
     "TcpWindowScan", "TcpMaimonScan", "TcpFinScan", "TcpNullScan", "TcpXmasScan"}
AllPortSpecs ==
    {PortSpecAll, PortSpecCommon, PortSpecRange("1-1000"),
     PortSpecTopPorts(0), PortSpecTopPorts(65535),
     PortSpecSpecific(<< >>), PortSpecSpecific(<<"22">>)}
\* intensity is a u8
Intensities == {None, Some(0), Some(9), Some(10), Some(255)}
AllServiceDetections ==
    {ServiceDetection(enabled, intensity, all_ports) :
        enabled \in BOOLEAN, intensity \in Intensities, all_ports \in BOOLEAN}
AllCategories ==
    {"Auth", "Default", "Discovery", "Dos", "Exploit", "External", "Fuzzer", "Intrusive",
     "Malware", "Safe", "Version", "Vuln", "Brute", "Broadcast", "Meterpreter", "Sniffer"}
AllScriptScans ==
    {ScriptScan(<< >>, None, <<c>>) : c \in AllCategories}
    \cup {ScriptScan(scripts, args, categories) :
            scripts \in {<< >>, <<"http-title">>},
            args \in {None, Some(""), Some("user=admin,pass=x")},
            categories \in {<< >>, <<"Vuln">>}}
AllOutputFormats == {"Normal", "Xml", "Json", "Greppable", "All"}
AllStealthOptions ==
    {StealthOptions(None, None, None, None, FALSE, None, None),
     StealthOptions(Some(<<"10.0.0.1">>), None, None, None, FALSE, None, None),
     StealthOptions(None, Some(0), None, None, FALSE, None, None),
     StealthOptions(None, Some(65535), None, None, FALSE, None, None),
     StealthOptions(None, None, Some("eth0"), None, FALSE, None, None),
     StealthOptions(None, None, None, Some(0), FALSE, None, None),
     StealthOptions(None, None, None, Some(255), FALSE, None, None),
     StealthOptions(None, None, None, None, TRUE, None, None),
     StealthOptions(None, None, None, None, FALSE, Some("10.0.0.9"), None),
     StealthOptions(None, None, None, None, FALSE, None, Some("00:11:22:33:44:55"))}

SweepRequests ==
    LET base == EmptyRequest("scanme.nmap.org")
    IN  {EmptyRequest(t) : t \in AllTargets}
        \cup {[base EXCEPT !.timing = Some(v)] : v \in AllTimings}
        \cup {[base EXCEPT !.scan_type = Some(v)] : v \in AllScanTypes}
        \cup {[base EXCEPT !.port_specification = Some(v)] : v \in AllPortSpecs}
        \cup {[base EXCEPT !.service_detection = Some(v)] : v \in AllServiceDetections}
        \cup {[base EXCEPT !.script_scan = Some(v)] : v \in AllScriptScans}
        \cup {[base EXCEPT !.output_format = Some(v)] : v \in AllOutputFormats}
        \cup {[base EXCEPT !.stealth_options = Some(v)] : v \in AllStealthOptions}

ScanRequests == ProductRequests \cup SweepRequests

\* a record is built, build_command has not been called on it
InitCompile ==
    /\ request \in ScanRequests
    /\ cmd = None
    /\ pc = "compile"
    /\ registry = EmptyRegistry
    /\ order = << >>
    /\ registered = << >>
    /\ line = None
    /\ req = None
    /\ call = None
    /\ resp = None
    /\ output = << >>
    /\ accepted = << >>
    /\ paths = << >>
    /\ skipped = {}
    /\ nread = 0
    /\ backendCalls = 0
    /\ lookups = 0
    /\ stealthInput = None
    /\ stealthBody = None

\* a compilation that moves the target out of the record instead of
\* cloning it
BuildCommand_TakesTarget ==
    /\ pc = "compile"
    /\ cmd = None
    /\ cmd' = Some(build_command(request))
    /\ request' = [request EXCEPT !.target = ""]
    /\ UNCHANGED <<pc, registry, order, line, req, call, resp, output, accepted, paths,
                   skipped, nread, backendCalls, lookups, registered, stealthInput,
                   stealthBody>>

\* let cmd = request.build_command()
BuildCommand ==
    /\ pc = "compile"
    /\ cmd = None
    /\ cmd' = Some(build_command(request))
    /\ UNCHANGED <<pc, registry, order, line, req, call, resp, output, accepted, paths,
                   skipped, nread, backendCalls, lookups, registered, request,
                   stealthInput, stealthBody>>

\* build_command takes &self: the record is still there afterwards and can
\* be compiled again.
BuildCommandAgain ==
    /\ pc = "compile"
    /\ cmd # None
    /\ cmd' = Some(build_command(request))
    /\ pc' = "compiled"
    /\ UNCHANGED <<registry, order, line, req, call, resp, output, accepted, paths,
                   skipped, nread, backendCalls, lookups, registered, request,
                   stealthInput, stealthBody>>

NextCompile ==
    \/ BuildCommand
    \/ BuildCommandAgain

SpecCompile == InitCompile /\ [][NextCompile]_vars

-----------------------------------------------------------------------------
(* StealthScanTool::execute and services::advanced_nmap_scan::stealth_scan *)
(* up to the call of nmap::advanced_scan.  The input is a JSON object;     *)
(* each field is absent, of another type than the one read, or the JSON    *)
(* text of its value.                                                      *)
NonBool == "<nonbool>"

StealthInput(target, stealth_level, scan_type, use_decoys, fragment_packets) ==
    [target |-> target, stealth_level |-> stealth_level, scan_type |-> scan_type,
     use_decoys |-> use_decoys, fragment_packets |-> fragment_packets]

\* input.get(f).and_then(|v| v.as_str()).unwrap_or(default)
StrOr(v, default) == IF v \in {Absent, NonString} THEN default ELSE v

\* input.get(f).and_then(|v| v.as_bool()).unwrap_or(default)
BoolOr(v, default) == IF v \in {Absent, NonBool} THEN default ELSE v = "true"

\* the keys a JSON object gets
Keys3(decoys, ttl, fragment_packets) ==
    (IF decoys = None THEN {} ELSE {"decoys"})
    \cup (IF ttl = None THEN {} ELSE {"ttl"})
    \cup (IF fragment_packets THEN {"fragment_packets"} ELSE {})

\* stealth_opts: json!({}) with decoys, ttl and fragment_packets set when
\* they are given
StealthOpts(decoys, ttl, fragment_packets) ==
    [k \in Keys3(decoys, ttl, fragment_packets) |->
        CASE k = "decoys" -> decoys.v
          [] k = "ttl" -> ttl.v
          [] k = "fragment_packets" -> TRUE]

\* stealth_scan sending decoys at level low too
stealth_scan_LowDecoys(target, stealth_level, scan_type, use_decoys, fragment_packets) ==
    LET t == CASE stealth_level = "low" ->
                    [timing |-> "T3",
                     decoys |-> IF use_decoys THEN Some(<<"RND:5", "ME">>) ELSE None,
                     ttl |-> None]
               [] stealth_level = "medium" ->
                    [timing |-> "T2",
                     decoys |-> IF use_decoys THEN Some(<<"RND:5", "ME">>) ELSE None,
                     ttl |-> Some(64)]
               [] stealth_level = "high" ->
                    [timing |-> "T1",
                     decoys |-> IF use_decoys THEN Some(<<"RND:10", "8.8.8.8", "ME">>) ELSE None,
                     ttl |-> Some(128)]
               [] stealth_level = "maximum" ->
                    [timing |-> "T0",
                     decoys |-> IF use_decoys
                                THEN Some(<<"RND:15", "8.8.8.8", "1.1.1.1", "ME">>) ELSE None,
                     ttl |-> Some(255)]
               [] OTHER -> [timing |-> "T2", decoys |-> None, ttl |-> None]
    IN  [target |-> target, timing |-> t.timing, scan_type |-> scan_type,
         stealth_options |->
            [k \in (IF t.decoys = None THEN {} ELSE {"decoys"})
                    \cup (IF t.ttl = None THEN {} ELSE {"ttl"})
                    \cup (IF fragment_packets THEN {"fragment_packets"} ELSE {}) |->
                CASE k = "decoys" -> t.decoys.v
                  [] k = "ttl" -> t.ttl.v
                  [] k = "fragment_packets" -> TRUE]]

\* stealth_scan: the body handed to nmap::advanced_scan
stealth_scan(target, stealth_level, scan_type, use_decoys, fragment_packets) ==
    LET t == CASE stealth_level = "low" -> [timing |-> "T3", decoys |-> None, ttl |-> None]
               [] stealth_level = "medium" ->
                    [timing |-> "T2",
                     decoys |-> IF use_decoys THEN Some(<<"RND:5", "ME">>) ELSE None,
                     ttl |-> Some(64)]
               [] stealth_level = "high" ->
                    [timing |-> "T1",
                     decoys |-> IF use_decoys THEN Some(<<"RND:10", "8.8.8.8", "ME">>) ELSE None,
                     ttl |-> Some(128)]
               [] stealth_level = "maximum" ->
                    [timing |-> "T0",
                     decoys |-> IF use_decoys
                                THEN Some(<<"RND:15", "8.8.8.8", "1.1.1.1", "ME">>) ELSE None,
                     ttl |-> Some(255)]
               [] OTHER -> [timing |-> "T2", decoys |-> None, ttl |-> None]
    IN  [target |-> target, timing |-> t.timing, scan_type |-> scan_type,
         stealth_options |-> StealthOpts(t.decoys, t.ttl, fragment_packets)]

\* StealthScanTool::execute: the error for a missing target, or the body
\* stealth_scan posts
StealthScanExecute(input) ==
    IF input.target \in {Absent, NonString}
    THEN Err(<<"missing required field ", "target">>)
    ELSE Ok(stealth_scan(input.target,
                         StrOr(input.stealth_level, "medium"),
                         StrOr(input.scan_type, "tcp_syn"),
                         BoolOr(input.use_decoys, TRUE),
                         BoolOr(input.fragment_packets, FALSE)))

StealthLevels == {"low", "medium", "high", "maximum", "paranoid", "", "LOW"}

StealthInputs ==
    {StealthInput(target, level, scan_type, use_decoys, fragment_packets) :
        target \in {Absent, NonString, "scanme.nmap.org"},
        level \in {Absent, NonString} \cup StealthLevels,
        scan_type \in {Absent, "tcp_fin"},
        use_decoys \in {Absent, NonBool, "true", "false"},
        fragment_packets \in {Absent, "true", "false"}}

\* the tool is about to be executed on an input
InitStealth ==
    /\ stealthInput \in StealthInputs
    /\ stealthBody = None
    /\ pc = "stealth"
    /\ request = None
    /\ cmd = None
    /\ registry = EmptyRegistry
    /\ order = << >>
    /\ registered = << >>
    /\ line = None
    /\ req = None
    /\ call = None
    /\ resp = None
    /\ output = << >>
    /\ accepted = << >>
    /\ paths = << >>
    /\ skipped = {}
    /\ nread = 0
    /\ backendCalls = 0
    /\ lookups = 0

\* StealthScanTool.execute(input) up to nmap::advanced_scan(&body)
ExecuteStealthScan ==
    /\ pc = "stealth"
    /\ stealthBody = None
    /\ stealthBody' = Some(StealthScanExecute(stealthInput))
    /\ UNCHANGED <<pc, registry, order, line, req, call, resp, output, accepted, paths,
                   skipped, nread, backendCalls, lookups, registered, request, cmd,
                   stealthInput>>

NextStealth == ExecuteStealthScan

SpecStealth == InitStealth /\ [][NextStealth]_vars

TypeOK ==
    /\ pc \in {"startup", "compile", "compiled", "stealth", "await", "parse", "dispatch", "calling", "resume", "respond",
               "done", "failed"}
    /\ nread \in 0..MaxLines
    /\ Len(output) <= nread
    /\ backendCalls \in 0..MaxLines
    /\ lookups \in 0..MaxLines

-----------------------------------------------------------------------------
(* Properties                                                              *)

\* The line in hand parses as a message (an RpcRequest).
ParsesAsMessage == pc = "parse" /\ line.v.shape # "blank" /\ ParseRequest(line.v).t = "Ok"

\* C1: a line that parses as a message and carries no id is skipped: the
\* step that classifies it writes nothing, builds no response, hands
\* nothing to handle_request and returns to awaiting the next line, for a
\* known method as for an unknown one.
C1_NotificationNoResponse ==
    [][(ParsesAsMessage /\ line.v.id = Absent)
        => (pc' = "await" /\ output' = output /\ resp' = None /\ req' = None
            /\ accepted' = accepted)]_vars

\* C1 witness: notifications with a known and with an unknown method were
\* skipped and nothing was written.
C1_Witness ==
    /\ pc = "await"
    /\ nread = 2
    /\ output = << >>
    /\ \E a, b \in skipped :
          /\ a.kind = "notification" /\ a.method = "tools/call"
          /\ b.kind = "notification" /\ b.method = "ping"

\* C2: the number of response lines written equals the number of requests
\* taken on, less the one still in hand; and the loop never awaits or
\* reads a line, nor ends, with a request in hand.
C2_OneResponsePerRequest ==
    /\ Len(output) = Len(accepted) - (IF req = None THEN 0 ELSE 1)
    /\ pc \in {"await", "parse", "done"} => (req = None /\ Len(output) = Len(accepted))

\* C2 witness: two requests were answered, one by a success and one by an
\* error.
C2_Witness ==
    /\ pc = "await"
    /\ Len(accepted) = 2
    /\ Len(output) = 2
    /\ "result" \in DOMAIN output[1]
    /\ "error" \in DOMAIN output[2]

\* C3: the i-th response line carries the id of the i-th accepted request.
C3_IdsEchoedInOrder ==
    /\ Len(output) <= Len(accepted)
    /\ \A i \in 1..Len(output) : output[i].id = accepted[i]

\* C3 witness: two requests with distinct ids were answered.
C3_Witness ==
    /\ Len(output) = 2
    /\ accepted[1] # accepted[2]
    /\ output[1].id = "\"a\""
    /\ output[2].id = "1"

\* C4: a line that is not a structurally valid message (not JSON, not a
\* JSON object, or without a string method) is dropped: the step that
\* classifies it writes nothing and returns to awaiting the next line.
C4_MalformedLineDropped ==
    [][(pc = "parse"
        /\ (line.v.shape # "object" \/ line.v.method \in {Absent, NonString}))
        => (pc' = "await" /\ output' = output /\ resp' = None /\ accepted' = accepted)]_vars

\* The failures of tools/call that C5 tells apart.
CallFailures == {"invalid_params", "unknown_tool", "tool_failure"}

\* C5: two tools/call responses that report different failures (malformed
\* name, unknown capability, failure during invocation) carry different
\* error codes.
C5_DistinctErrorCodes ==
    \A i, j \in 1..Len(output) :
        (paths[i] \in CallFailures /\ paths[j] \in CallFailures /\ paths[i] # paths[j])
            => output[i].error.code # output[j].error.code

\* The request in hand is a tools/call whose params name a capability
\* that is not registered.
UnknownToolRequest ==
    /\ req.v.method = "tools/call"
    /\ ParseToolCallParams(req.v.params).t = "Ok"
    /\ ParseToolCallParams(req.v.params).v.name \notin DOMAIN registry

\* C6: a tools/call naming an unregistered capability is answered at once
\* by a response with an error and no result, without a backend call; the
\* line written for it has an error and no result, and after writing it
\* the loop awaits the next line.
C6_UnknownToolIsError ==
    /\ [][(pc = "dispatch" /\ UnknownToolRequest)
            => (/\ pc' = "respond"
                /\ resp'.v.error # None
                /\ resp'.v.result = None
                /\ backendCalls' = backendCalls
                /\ call' = None)]_vars
    /\ [][(pc = "respond" /\ UnknownToolRequest /\ output' # output)
            => (/\ pc' = "await"
                /\ "error" \in DOMAIN output'[Len(output')]
                /\ "result" \notin DOMAIN output'[Len(output')])]_vars

\* C6 witness: an unknown tool was answered by an error, no backend call
\* was made, and the request after it was answered by a success.
C6_Witness ==
    /\ pc = "await"
    /\ paths = <<"unknown_tool", "success">>
    /\ Len(output) = 2
    /\ "error" \in DOMAIN output[1]
    /\ "result" \in DOMAIN output[2]
    /\ backendCalls = 0

\* C7: a request whose method is none of the five known ones is answered
\* at once with error code -32601 and no result; no registry lookup and no
\* backend call is made for it.
C7_UnknownMethod ==
    [][(pc = "dispatch" /\ req.v.method \notin
            {"initialize", "tools/list", "tools/call", "prompts/list", "prompts/get"})
        => (/\ pc' = "respond"
            /\ resp'.v.result = None
            /\ resp'.v.error # None
            /\ resp'.v.error.v.code = -32601
            /\ lookups' = lookups
            /\ backendCalls' = backendCalls
            /\ call' = None)]_vars

\* C7 witness: an unknown method was answered with -32601 and the registry
\* and the backend were never used.
C7_Witness ==
    /\ Len(output) >= 1
    /\ paths[1] = "method_not_found"
    /\ output[1].error.code = -32601
    /\ "result" \notin DOMAIN output[1]
    /\ lookups = 0
    /\ backendCalls = 0

\* C8: a tools/call whose params are not an object, or lack name, or have a
\* name that is not a string, is answered with error code -32602 and no
\* capability is looked up or invoked.
C8_BadParamsInvalid ==
    [][(pc = "dispatch" /\ req.v.method = "tools/call"
        /\ (req.v.params.t # "object" \/ req.v.params.name \in {Absent, NonString}))
        => (/\ pc' = "respond"
            /\ resp'.v.error # None
            /\ resp'.v.error.v.code = -32602
            /\ lookups' = lookups
            /\ backendCalls' = backendCalls
            /\ call' = None)]_vars

\* C9: when the backend call of a capability fails (transport, non-2xx
\* status, body that is not JSON), the request is answered with error code
\* -32000 under its own id, and once that is written the loop awaits the
\* next line.
C9_BackendFailureIsToolError ==
    /\ [][(pc = "resume" /\ call.v.outcome \in {"transport", "status", "decode"})
            => (/\ pc' = "respond"
                /\ resp'.v.result = None
                /\ resp'.v.error # None
                /\ resp'.v.error.v.code = -32000
                /\ resp'.v.id = req.v.id.v)]_vars
    /\ [][(pc = "respond" /\ paths[Len(paths)] = "tool_failure" /\ output' # output)
            => (/\ pc' = "await"
                /\ output'[Len(output')].error.code = -32000
                /\ output'[Len(output')].id = accepted[Len(accepted)])]_vars

\* C9 witness: the one tools/call that reached the backend failed there,
\* was answered with -32000, and the request after it was answered.
C9_Witness ==
    /\ pc = "await"
    /\ paths = <<"tool_failure", "success">>
    /\ lookups = 1
    /\ backendCalls = 1
    /\ output[1].error.code = -32000
    /\ output[1].id = accepted[1]
    /\ "result" \in DOMAIN output[2]

\* C10: every line written has jsonrpc "2.0", an id, and exactly one of
\* result and error.
C10_ResponseShape ==
    \A i \in 1..Len(output) :
        /\ "jsonrpc" \in DOMAIN output[i]
        /\ output[i].jsonrpc = "2.0"
        /\ "id" \in DOMAIN output[i]
        /\ output[i].id # Null
        /\ ("result" \in DOMAIN output[i]) # ("error" \in DOMAIN output[i])

\* C10 witness: a success and an error were written.
C10_Witness ==
    /\ Len(output) = 2
    /\ DOMAIN output[1] = {"jsonrpc", "id", "error"}
    /\ DOMAIN output[2] = {"jsonrpc", "id", "result"}

\* The steps of the loop: awaiting (await, parse), dispatching (dispatch,
\* calling, resume), responding (respond), and the two ways main ends.
LoopSteps ==
    {<<"await", "parse">>, <<"parse", "await">>, <<"parse", "dispatch">>,
     <<"dispatch", "respond">>, <<"dispatch", "calling">>, <<"calling", "resume">>,
     <<"resume", "respond">>, <<"respond", "await">>,
     <<"await", "done">>, <<"await", "failed">>, <<"respond", "failed">>}

\* C11: one message is in processing at a time.  The loop moves only
\* awaiting -> dispatching -> responding -> awaiting; a line is read only
\* while awaiting, with no request, backend call or response in hand and
\* every accepted request answered; a backend call is out only inside the
\* dispatch of the one request in hand, and all calls sent before it belong to
\* requests already answered (so at most one is outstanding); while a call
\* is out no line is read and nothing is written.
C11_OneMessageAtATime ==
    /\ [](/\ (call # None) <=> (pc \in {"calling", "resume"})
          /\ (pc \in {"dispatch", "calling", "resume", "respond"}) => (req # None)
          /\ (pc \in {"await", "parse", "done"}) => (req = None /\ resp = None)
          /\ backendCalls <= Len(accepted)
          /\ (call # None) => (backendCalls <= Len(output) + 1))
    /\ [][pc' # pc => <<pc, pc'>> \in LoopSteps]_vars
    /\ [][nread' # nread
            => (/\ pc = "await" /\ req = None /\ call = None /\ resp = None
                /\ Len(output) = Len(accepted))]_vars
    /\ [][call # None
            => (nread' = nread /\ line' = line /\ output' = output /\ req' = req)]_vars

\* C11 witness: a second backend call is out, after the first request was
\* answered, and both lines have been read.
C11_Witness ==
    /\ pc = "calling"
    /\ call # None /\ call.v.outcome = "pending"
    /\ backendCalls = 2
    /\ Len(output) = 1
    /\ nread = 2

\* Every backend call sent eventually completes or fails.
BackendCallsEnd == (pc = "calling") ~> (pc # "calling")

\* No write of a response fails: main never ends with a response in hand.
WritesSucceed == [](pc = "failed" => resp = None)

\* C12: if every backend call ends and the writes succeed, the n-th
\* accepted request is eventually answered by the n-th response line.
C12_AcceptedIsAnswered ==
    (BackendCallsEnd /\ WritesSucceed)
        => \A n \in 1..MaxLines : (Len(accepted) = n) ~> (Len(output) = n)

\* C12 witness: two requests went to the backend one after the other and
\* both were answered, the second by the failure of its call.
C12_Witness ==
    /\ pc = "await"
    /\ Len(accepted) = 2
    /\ Len(output) = 2
    /\ backendCalls = 2
    /\ paths = <<"success", "tool_failure">>

\* The tools array of the i-th line written, when that line answers a
\* tools/list.
IsToolsList(i) == "result" \in DOMAIN output[i] /\ "tools" \in DOMAIN output[i].result

\* C13: in every tools/list result written, the names are exactly the
\* names registered by register_all_tools (the keys of the registry), no
\* name is listed twice, and each entry carries the description and the
\* inputSchema of the tool registered under its name.
C13_ListIsRegistry ==
    \A i \in 1..Len(output) :
        IsToolsList(i) =>
            LET tools == output[i].result.tools
            IN  /\ {tools[k].name : k \in 1..Len(tools)} = DOMAIN registry
                /\ {tools[k].name : k \in 1..Len(tools)}
                     = {ToolName(RegisteredTools[k]) : k \in 1..Len(RegisteredTools)}
                /\ \A j, k \in 1..Len(tools) : tools[j].name = tools[k].name => j = k
                /\ \A k \in 1..Len(tools) :
                      /\ tools[k].description = Description(registry[tools[k].name].tool)
                      /\ tools[k].inputSchema = InputSchema(registry[tools[k].name].tool)

\* C13 witness: a tools/list was answered twice in one run, with one entry
\* for each registered tool, the map iterating from its last-registered
\* name.
C13_Witness ==
    /\ Len(output) = 2
    /\ IsToolsList(1) /\ IsToolsList(2)
    /\ Len(output[1].result.tools) = Len(RegisteredTools)
    /\ output[1].result.tools[1].name = ToolName(RegisteredTools[Len(RegisteredTools)])
    /\ output[2].result.tools = output[1].result.tools

\* C14: no step of the message loop changes the registry: it holds the
\* tools register_all_tools put in it before the first line was read, in
\* every reachable state, whatever the message and its outcome.
C14_RegistryFrozen ==
    /\ [](registry = register_all_tools(EmptyRegistry))
    /\ [][registry' = registry /\ order' = order]_vars

\* C14 witness: a malformed line was dropped and a tools/call went through
\* the registry to the backend and failed there; the registry still holds
\* every registered tool.
C14_Witness ==
    /\ pc = "await"
    /\ nread = 2
    /\ \E a \in skipped : a.kind = "unparsable"
    /\ paths = <<"tool_failure">>
    /\ lookups = 1
    /\ DOMAIN registry = {ToolName(RegisteredTools[k]) : k \in 1..Len(RegisteredTools)}

\* The tool handed to the last call of register, and its name.
LastRegistered == registered[Len(registered)]
LastName == ToolName(LastRegistered)

\* C15: a call of register with a tool whose name the registry already
\* holds is taken like any other, leaves the set of names as it was,
\* puts the new allocation in the place of the old one and touches no
\* other entry; afterwards a call by that name runs the tool registered
\* last and the listing has exactly one entry of that name.
C15_RegisterReplaces ==
    /\ [](Len(registered) < MaxRegistrations => ENABLED RegisterTool)
    /\ [][(registered' # registered /\ ToolName(registered'[Len(registered')]) \in DOMAIN registry)
            => LET tool == registered'[Len(registered')]
                   name == ToolName(tool)
                   tools == list(registry', order')
               IN  /\ DOMAIN registry' = DOMAIN registry
                   /\ registry'[name] = Arc(tool, Len(registered'))
                   /\ registry'[name] # registry[name]
                   /\ \A n \in DOMAIN registry \ {name} : registry'[n] = registry[n]
                   /\ \A input \in CallInputs :
                         RegistryCall(registry', name, input) = Execute(tool, input)
                   /\ Cardinality({i \in 1..Len(tools) : tools[i].name = name}) = 1
                   /\ Len(tools) = Cardinality(DOMAIN registry)]_vars

\* C15 witness: a tool was registered, then another, then the first once
\* more; the registry has two names and holds the third allocation under
\* the name of the first.
C15_Witness ==
    /\ pc = "startup"
    /\ Len(registered) = 3
    /\ registered[1] = registered[3]
    /\ registered[2] # registered[1]
    /\ Cardinality(DOMAIN registry) = 2
    /\ registry[LastName].addr = 3

\* The names a prompts/list result gives.
ListedPrompts == {list_prompts[i].name : i \in 1..Len(list_prompts)}

\* C16: a prompts/get whose params give a name that prompts/list returns
\* is answered by a result holding the prompt of that name and by no
\* error, whatever arguments (none included) come with it.
C16_ListedPromptIsFound ==
    [][(pc = "dispatch" /\ req.v.method = "prompts/get"
        /\ req.v.params.t \in {"object", "array"}
        /\ req.v.params.name \in ListedPrompts)
        => (/\ pc' = "respond"
            /\ resp'.v.error = None
            /\ resp'.v.result # None
            /\ resp'.v.result.v.prompt.name = req.v.params.name
            /\ resp'.v.id = req.v.id.v)]_vars

\* C16 witness: prompts/list was answered, and a prompts/get for the name
\* it gave, sent without arguments, has its result ready.
C16_Witness ==
    /\ pc = "respond"
    /\ Len(output) = 1
    /\ "result" \in DOMAIN output[1]
    /\ "prompts" \in DOMAIN output[1].result
    /\ req.v.method = "prompts/get"
    /\ req.v.params.name = output[1].result.prompts[1].name
    /\ req.v.params.arguments = AbsentValue
    /\ resp.v.error = None
    /\ resp.v.result.v.prompt.name = output[1].result.prompts[1].name

\* C17: a prompts/get whose params are not an object, or give no name, or
\* a name that is not a string, is answered with error code -32602; one
\* that names a prompt prompts/list does not return is answered with
\* -32601; either answer carries the id of the request, and the step
\* leaves the registry, the output and the backend untouched.
C17_PromptGetErrors ==
    [][(pc = "dispatch" /\ req.v.method = "prompts/get")
        => (/\ (req.v.params.t # "object" \/ req.v.params.name \in {Absent, NonString})
                  => (resp'.v.error # None /\ resp'.v.error.v.code = -32602)
            /\ (req.v.params.t = "object" /\ req.v.params.name \notin {Absent, NonString}
                 /\ req.v.params.name \notin ListedPrompts)
                  => (resp'.v.error # None /\ resp'.v.error.v.code = -32601)
            /\ pc' = "respond"
            /\ resp'.v.id = req.v.id.v
            /\ registry' = registry
            /\ output' = output
            /\ lookups' = lookups
            /\ backendCalls' = backendCalls
            /\ call' = None)]_vars

\* The i-th line written answers an initialize.
IsInitializeResult(i) ==
    "result" \in DOMAIN output[i] /\ "protocolVersion" \in DOMAIN output[i].result

\* C18: an initialize is answered by a result and no error; the
\* protocolVersion of the result is the string params.protocolVersion when
\* params are an object holding one, and "2024-11-05" in every other case;
\* capabilities and serverInfo are the same in every initialize result
\* written.
C18_Initialize ==
    /\ [][(pc = "dispatch" /\ req.v.method = "initialize")
            => (/\ pc' = "respond"
                /\ resp'.v.error = None
                /\ resp'.v.result # None
                /\ resp'.v.id = req.v.id.v
                /\ resp'.v.result.v.protocolVersion =
                      (IF req.v.params.t = "object"
                          /\ req.v.params.protocolVersion \notin {Absent, NonString}
                       THEN req.v.params.protocolVersion
                       ELSE "2024-11-05"))]_vars
    /\ [](\A i, j \in 1..Len(output) :
            (IsInitializeResult(i) /\ IsInitializeResult(j))
                => (/\ output[i].result.capabilities = output[j].result.capabilities
                    /\ output[i].result.serverInfo = output[j].result.serverInfo
                    /\ output[i].result.serverInfo.name = "hacker_agent"))

\* C18 witness: one initialize was answered with the version it sent,
\* another, sent without params, with the default.
C18_Witness ==
    /\ Len(output) = 2
    /\ IsInitializeResult(1) /\ IsInitializeResult(2)
    /\ output[1].result.protocolVersion = "2025-03-26"
    /\ output[2].result.protocolVersion = DefaultProtocolVersion

\* C19: the dispatch of a tools/call sends at most one HTTP request, and
\* nothing else sends one; once the call has ended, well or badly, the
\* request is answered without another call, a failure by an error under
\* the id of that request; so every call sent belongs to a request of its
\* own.
C19_NoRetry ==
    /\ [][backendCalls' # backendCalls
            => (/\ pc = "dispatch"
                /\ req.v.method = "tools/call"
                /\ backendCalls' = backendCalls + 1
                /\ call = None /\ call' # None)]_vars
    /\ [][pc = "resume"
            => (/\ pc' = "respond"
                /\ call' = None
                /\ backendCalls' = backendCalls
                /\ resp'.v.id = req.v.id.v
                /\ (call.v.outcome # "ok") => (resp'.v.error # None /\ resp'.v.result = None))]_vars
    /\ [][pc = "respond" => (backendCalls' = backendCalls /\ call' = None)]_vars
    /\ [](backendCalls <= Cardinality({i \in 1..Len(paths) :
                                          paths[i] \in {"success", "tool_failure"}})
                            + (IF call # None THEN 1 ELSE 0))

\* C19 witness: two tools/call requests each sent one call, each call
\* failed, and each failure was written under the id of its request.
C19_Witness ==
    /\ pc = "await"
    /\ paths = <<"tool_failure", "tool_failure">>
    /\ backendCalls = 2
    /\ Len(output) = 2
    /\ \A i \in 1..2 : "error" \in DOMAIN output[i] /\ output[i].id = accepted[i]

\* s begins with prefix
StartsWith(s, prefix) == Len(s) >= Len(prefix) /\ SubSeq(s, 1, Len(prefix)) = prefix

\* The groups of tokens in the order they are to appear between the
\* program name and the target.
GroupOrder ==
    << "timing", "scan_type", "port_specification", "service_detection", "os_detection",
       "script", "script_args", "output_format", "decoys", "source_port", "interface",
       "ttl", "randomize_hosts", "spoof_ip", "spoof_mac" >>

\* The group a token belongs to by the flag it starts with.
Group(token) ==
    CASE token \in {"-sn", "-sS", "-sT", "-sU", "-sA", "-sW", "-sM", "-sF", "-sN", "-sX"}
            -> "scan_type"
      [] token = "-sV" \/ token = "--all-ports" \/ StartsWith(token, "--version-intensity")
            -> "service_detection"
      [] token = "-O" -> "os_detection"
      [] token \in {"-oX", "-oJ", "-oG", "-oA"} -> "output_format"
      [] token = "--randomize-hosts" -> "randomize_hosts"
      [] StartsWith(token, "--script-args") -> "script_args"
      [] StartsWith(token, "--script") -> "script"
      [] StartsWith(token, "--top-ports") \/ StartsWith(token, "-p") -> "port_specification"
      [] StartsWith(token, "--source-port") -> "source_port"
      [] StartsWith(token, "--ttl") -> "ttl"
      [] StartsWith(token, "--spoof-mac") -> "spoof_mac"
      [] StartsWith(token, "-T") -> "timing"
      [] StartsWith(token, "-D") -> "decoys"
      [] StartsWith(token, "-e") -> "interface"
      [] StartsWith(token, "-S") -> "spoof_ip"
      [] OTHER -> "none"

\* The place of a token's group in GroupOrder, 0 when it has none.
Rank(token) ==
    IF \E i \in 1..Len(GroupOrder) : GroupOrder[i] = Group(token)
    THEN CHOOSE i \in 1..Len(GroupOrder) : GroupOrder[i] = Group(token)
    ELSE 0

\* The groups of the tokens between the program name and the target.
InnerGroups(c) == {Group(c[i]) : i \in 2..(Len(c) - 1)}

\* C20: the compiled sequence starts with the program name and ends with
\* the target; every token between them begins with a flag of one of the
\* groups, and the groups follow one another in the fixed order (timing,
\* scan technique, ports, service detection, OS detection, scripts and
\* categories, script arguments, output format, decoys, source port,
\* interface, TTL, host randomization, spoofed IP, spoofed MAC); of two
\* script entries the one of the explicit scripts comes first.
C20_EmissionOrder ==
    cmd # None =>
        LET c == cmd.v
        IN  /\ Len(c) >= 2
            /\ c[1] = "nmap"
            /\ c[Len(c)] = request.target
            /\ \A i \in 2..(Len(c) - 1) : Rank(c[i]) # 0
            /\ \A i, j \in 2..(Len(c) - 1) : i < j => Rank(c[i]) <= Rank(c[j])
            /\ \A i, j \in 2..(Len(c) - 1) :
                  (i < j /\ Group(c[i]) = "script" /\ Group(c[j]) = "script")
                      => (/\ c[i] = "--script " \o Join(request.script_scan.v.scripts, ",")
                          /\ c[j] # c[i])

\* C20 witness: a record with every option set was compiled, and every
\* group has a token between the program name and the target.
C20_Witness ==
    /\ cmd # None
    /\ InnerGroups(cmd.v) = {GroupOrder[i] : i \in 1..Len(GroupOrder)}
    /\ cmd.v[Len(cmd.v)] = request.target

\* a flag and the value that goes with it
Option(flag, value) == [flag |-> flag, value |-> value]

\* The options of a record that carry a number or a list, with the flag
\* and the value build_command gives each.
ValuedOptions(self) ==
    (IF self.port_specification = None THEN {}
     ELSE LET ports == self.port_specification.v
          IN  CASE ports.variant = "TopPorts" -> {Option("--top-ports", Display(ports.n))}
                [] ports.variant = "Specific" -> {Option("-p", Join(ports.port_list, ","))}
                [] ports.variant = "Range" -> {Option("-p", ports.range)}
                [] OTHER -> {})
    \cup (IF self.service_detection = None THEN {}
          ELSE IF self.service_detection.v.enabled /\ self.service_detection.v.intensity # None
               THEN {Option("--version-intensity",
                            Display(self.service_detection.v.intensity.v))}
               ELSE {})
    \cup (IF self.script_scan = None THEN {}
          ELSE (IF self.script_scan.v.scripts # << >>
                THEN {Option("--script", Join(self.script_scan.v.scripts, ","))} ELSE {})
               \cup (IF self.script_scan.v.categories # << >>
                     THEN {Option("--script",
                                  Join([i \in 1..Len(self.script_scan.v.categories) |->
                                           DebugLower(self.script_scan.v.categories[i])], ","))}
                     ELSE {})
               \cup (IF self.script_scan.v.args # None
                     THEN {Option("--script-args", self.script_scan.v.args.v)} ELSE {}))
    \cup (IF self.stealth_options = None THEN {}
          ELSE LET stealth == self.stealth_options.v
               IN  (IF stealth.decoys # None
                    THEN {Option("-D", Join(stealth.decoys.v, ","))} ELSE {})
                   \cup (IF stealth.source_port # None
                         THEN {Option("--source-port", Display(stealth.source_port.v))} ELSE {})
                   \cup (IF stealth.interface # None
                         THEN {Option("-e", stealth.interface.v)} ELSE {})
                   \cup (IF stealth.ttl # None
                         THEN {Option("--ttl", Display(stealth.ttl.v))} ELSE {})
                   \cup (IF stealth.spoof_ip # None
                         THEN {Option("-S", stealth.spoof_ip.v)} ELSE {})
                   \cup (IF stealth.spoof_mac # None
                         THEN {Option("--spoof-mac", stealth.spoof_mac.v)} ELSE {}))

\* C21: for every option of the record that carries a number or a list,
\* the compiled sequence holds the flag as a token of its own followed at
\* once by one token that is the value.
C21_FlagThenValue ==
    cmd # None =>
        \A o \in ValuedOptions(request) :
            \E i \in 2..(Len(cmd.v) - 2) : cmd.v[i] = o.flag /\ cmd.v[i + 1] = o.value

\* The flags that take a value.
ValuedFlags ==
    {"--top-ports", "-p", "--version-intensity", "--script", "--script-args", "-D",
     "--source-port", "-e", "--ttl", "-S", "--spoof-mac"}

\* The tokens of c between program and target that belong to group g.
TokensOf(c, g) == {i \in 2..(Len(c) - 1) : Group(c[i]) = g}

\* C22: a decoy list of length zero leaves no decoy flag in the compiled
\* sequence, a script list of length zero leaves no explicit-scripts flag
\* (the only script entry left is that of the categories), and no token
\* is a flag with nothing after it as its value.
C22_EmptyListsSuppressed ==
    cmd # None =>
        /\ (request.stealth_options # None
             /\ request.stealth_options.v.decoys = Some(<< >>))
                => TokensOf(cmd.v, "decoys") = {}
        /\ (request.script_scan # None /\ request.script_scan.v.scripts = << >>)
                => Cardinality(TokensOf(cmd.v, "script"))
                     = (IF request.script_scan.v.categories = << >> THEN 0 ELSE 1)
        /\ \A i \in 2..(Len(cmd.v) - 1) :
                \A f \in ValuedFlags : cmd.v[i] # f \o " " /\ cmd.v[i] # f

\* C23: when the script block has an empty script list and an empty
\* category list, the compiled sequence holds no script entry and no
\* script-argument entry, whatever the block's args and the other fields.
C23_NoScriptFlags ==
    (cmd # None /\ request.script_scan # None
     /\ request.script_scan.v.scripts = << >>
     /\ request.script_scan.v.categories = << >>)
        => (TokensOf(cmd.v, "script") = {} /\ TokensOf(cmd.v, "script_args") = {})

\* What follows the flag and the space in an entry.
ValueOf(token, flag) == SubSeq(token, Len(flag) + 2, Len(token))

\* C24: when the script block has a non-empty script list and a non-empty
\* category list, the compiled sequence holds exactly two script entries,
\* one after the other: the first has the scripts, comma-joined, as its
\* value, the second the categories in lower case, comma-joined; neither
\* value holds both lists.
C24_TwoScriptEntries ==
    (cmd # None /\ request.script_scan # None
     /\ request.script_scan.v.scripts # << >>
     /\ request.script_scan.v.categories # << >>)
        => LET scripts == request.script_scan.v.scripts
               categories == request.script_scan.v.categories
               at == TokensOf(cmd.v, "script")
           IN  /\ Cardinality(at) = 2
               /\ \E i \in at :
                     /\ i + 1 \in at
                     /\ ValueOf(cmd.v[i], "--script") = Join(scripts, ",")
                     /\ ValueOf(cmd.v[i + 1], "--script")
                          = Join([k \in 1..Len(categories) |-> DebugLower(categories[k])], ",")
                     /\ ValueOf(cmd.v[i], "--script") # ValueOf(cmd.v[i + 1], "--script")
                     /\ (scripts = <<"http-title">> /\ categories = <<"Vuln">>)
                           => (cmd.v[i] = "--script http-title"
                               /\ cmd.v[i + 1] = "--script vuln")
                     /\ (categories = <<"Vuln", "Safe">>)
                           => ValueOf(cmd.v[i + 1], "--script") = "vuln,safe"

\* C24 witness: a record with two scripts and two categories was compiled
\* into two script entries.
C24_Witness ==
    /\ cmd # None
    /\ request.script_scan # None
    /\ Len(request.script_scan.v.scripts) = 2
    /\ Len(request.script_scan.v.categories) = 2
    /\ Cardinality(TokensOf(cmd.v, "script")) = 2

\* C25: a record in which every sub-record is absent and OS detection is
\* off compiles to exactly the program name followed by the target, for
\* every target (the empty string and strings that look like a flag or
\* hold a space included).
C25_EmptyRecord ==
    (cmd # None /\ request = EmptyRequest(request.target))
        => cmd.v = << "nmap", request.target >>

\* C25 witness: the empty record with a target that looks like a flag was
\* compiled.
C25_Witness ==
    /\ cmd # None
    /\ request = EmptyRequest("-oX")
    /\ Len(cmd.v) = 2

\* C26: a record whose port specification is Common compiles to the
\* sequence the same record compiles to with the port specification
\* absent, and a record whose output format is Normal to the sequence the
\* same record compiles to with the output format absent.
C26_DefaultVariantIsAbsent ==
    cmd # None =>
        /\ (request.port_specification = Some(PortSpecCommon))
              => cmd.v = build_command([request EXCEPT !.port_specification = None])
        /\ (request.output_format = Some("Normal"))
              => cmd.v = build_command([request EXCEPT !.output_format = None])

\* C26 witness: a record with both default variants and with other
\* options set was compiled.
C26_Witness ==
    /\ cmd # None
    /\ request.port_specification = Some(PortSpecCommon)
    /\ request.output_format = Some("Normal")
    /\ request.stealth_options # None
    /\ request.timing # None
    /\ Len(cmd.v) > 2
    /\ TokensOf(cmd.v, "port_specification") = {}
    /\ TokensOf(cmd.v, "output_format") = {}

IntensityRange == {Display(n) : n \in 0..9}

\* C29: every version-intensity value in a compiled sequence lies in the
\* range 0 to 9.
C29_IntensityInRange ==
    cmd # None =>
        \A i \in 1..Len(cmd.v) :
            StartsWith(cmd.v[i], "--version-intensity")
                => ValueOf(cmd.v[i], "--version-intensity") \in IntensityRange

\* what a response says, its id left out
Body(rsp) == [result |-> rsp.result, error |-> rsp.error]

\* C28: the engine keeps no account of ids.  Every response written
\* carries the id of the request it answers, a request whose id was used
\* before is answered like any other, and what a response says is what
\* handle_request gives for the same method and params under any other
\* id, whatever ids came earlier.
C28_IdsNotTracked ==
    [][/\ (pc = "dispatch" /\ pc' = "respond") =>
            /\ resp'.v.id = req.v.id.v
            /\ \A j \in AllIdVals :
                  LET h == handle_request(registry, order, j, [req.v EXCEPT !.id = Some(j)])
                  IN  h.t = "Ready" /\ h.resp.id = j /\ Body(h.resp) = Body(resp'.v)
       /\ (pc = "dispatch" /\ pc' = "calling") =>
            \A j \in AllIdVals :
                LET h == handle_request(registry, order, j, [req.v EXCEPT !.id = Some(j)])
                IN  h.t = "Suspended" /\ h.c.url = call'.v.url
       /\ (pc = "resume") =>
            /\ resp'.v.id = req.v.id.v
            /\ \A j \in AllIdVals :
                  Body(ToolCallResponse(j, BackendResult(call.v, call.v.outcome)))
                      = Body(resp'.v)
       /\ (pc = "respond" /\ pc' = "await") =>
            /\ Len(output') = Len(output) + 1
            /\ output'[Len(output')].id = accepted[Len(output')]
            /\ output'[Len(output')].id = req.v.id.v]_vars

\* C28 witness: two requests with the same id and different methods were
\* both answered, each response with that id, the two saying different
\* things.
C28_Witness ==
    /\ Len(output) = 2
    /\ accepted = << "[1]", "[1]" >>
    /\ output[1].id = "[1]"
    /\ output[2].id = "[1]"
    /\ "result" \in DOMAIN output[1]
    /\ "error" \in DOMAIN output[2]

\* C30: a message whose id is null is skipped like one without id: no
\* request is built, nothing is handed to handle_request, no tool is
\* looked up or called and nothing is written.  A message with any other
\* id, whatever kind of JSON value it is, becomes a request with that id,
\* and the response written for it carries the id as it was sent.
C30_NullIdIsNotification ==
    [][/\ (ParsesAsMessage /\ line.v.id = Null) =>
            /\ pc' = "await"
            /\ req' = None /\ resp' = None /\ call' = None
            /\ output' = output /\ accepted' = accepted
            /\ lookups' = lookups /\ backendCalls' = backendCalls
       /\ (ParsesAsMessage /\ line.v.id \notin {Absent, Null}) =>
            /\ pc' = "dispatch"
            /\ req'.v.id = Some(line.v.id)
       /\ (pc = "respond" /\ pc' = "await") =>
            /\ line.v.id \notin {Absent, Null}
            /\ output' = Append(output, Serialize(resp.v))
            /\ output'[Len(output')].id = line.v.id]_vars

\* C30 witness: a tools/call with a null id was skipped without a backend
\* call, and a request whose id is an object was answered with that id.
C30_Witness ==
    /\ pc = "await"
    /\ nread = 2
    /\ Skipped("notification", Line("object", Null, "tools/call", AbsentParams)) \in skipped
    /\ backendCalls = 0
    /\ lookups = 0
    /\ Len(output) = 1
    /\ output[1].id = "{\"k\":1}"

\* the tokens of group g of a compiled sequence, in the order they have
\* between the program name and the target
GroupTokens(c, g) == SelectSeq(SubSeq(c, 2, Len(c) - 1), LAMBDA token : Group(token) = g)

\* C38: with the service-detection block absent or its enabled flag false
\* the compiled sequence holds no service-detection token, whatever the
\* intensity and the all-ports flag are; with enabled true it holds -sV,
\* then the intensity entry if an intensity is given, then --all-ports if
\* the flag is set, and no other service-detection token.
C38_ServiceDetectionGated ==
    cmd # None =>
        LET tokens == GroupTokens(cmd.v, "service_detection")
            sd == request.service_detection
        IN  IF sd = None \/ ~sd.v.enabled THEN tokens = << >>
            ELSE /\ Len(tokens) = 1 + (IF sd.v.intensity = None THEN 0 ELSE 1)
                                     + (IF sd.v.all_ports THEN 1 ELSE 0)
                 /\ tokens[1] = "-sV"
                 /\ (sd.v.intensity # None) =>
                        /\ StartsWith(tokens[2], "--version-intensity")
                        /\ ValueOf(tokens[2], "--version-intensity") = Display(sd.v.intensity.v)
                 /\ sd.v.all_ports => tokens[Len(tokens)] = "--all-ports"

\* C38 witness: a record whose service-detection block is disabled but
\* has an intensity and the all-ports flag was compiled, with other
\* options set.
C38_Witness ==
    /\ cmd # None
    /\ request.service_detection = Some(ServiceDetection(FALSE, Some(5), TRUE))
    /\ request.os_detection
    /\ request.scan_type # None
    /\ Len(cmd.v) > 3
    /\ GroupTokens(cmd.v, "service_detection") = << >>

\* C39: a compiled sequence holds one scan-technique token when the
\* record has a scan technique and none otherwise; the eleven variants
\* give ten distinct flags, TcpScan and TcpSynScan both giving -sS, so a
\* record with one of the two compiles to the sequence the same record
\* compiles to with the other.
C39_OneScanTypeToken ==
    cmd # None =>
        /\ Len(GroupTokens(cmd.v, "scan_type")) = (IF request.scan_type = None THEN 0 ELSE 1)
        /\ Cardinality({ScanTypeTokens(Some(v)) : v \in AllScanTypes}) = 10
        /\ (request.scan_type = Some("TcpScan")) =>
              /\ GroupTokens(cmd.v, "scan_type") = << "-sS" >>
              /\ cmd.v = build_command([request EXCEPT !.scan_type = Some("TcpSynScan")])
        /\ (request.scan_type = Some("TcpSynScan")) =>
              /\ GroupTokens(cmd.v, "scan_type") = << "-sS" >>
              /\ cmd.v = build_command([request EXCEPT !.scan_type = Some("TcpScan")])

\* C39 witness: a record with TcpScan was compiled and its sequence has
\* the one token -sS.
C39_Witness ==
    /\ cmd # None
    /\ request.scan_type = Some("TcpScan")
    /\ cmd.v = << "nmap", "-sS", request.target >>

\* C31: a tools/call without id that names a registered tool and has
\* params in order is skipped with no side effect: the registry is not
\* asked for the tool, no backend call is made or left pending, no request
\* is built, nothing is written, and the registry is as it was.
C31_NotificationNoSideEffect ==
    [][(/\ ParsesAsMessage
        /\ line.v.id = Absent
        /\ line.v.method = "tools/call"
        /\ ParseToolCallParams(line.v.params).t = "Ok"
        /\ ParseToolCallParams(line.v.params).v.name \in DOMAIN registry)
       => (/\ pc' = "await"
           /\ lookups' = lookups
           /\ backendCalls' = backendCalls
           /\ call' = None
           /\ req' = None
           /\ registry' = registry
           /\ output' = output)]_vars

\* C31 witness: a tools/call notification naming a registered tool was
\* skipped, the registry was never asked and no backend call was made,
\* while a request was answered.
C31_Witness ==
    /\ pc = "await"
    /\ nread = 2
    /\ \E s \in skipped : s.kind = "notification" /\ s.method = "tools/call"
    /\ lookups = 0
    /\ backendCalls = 0
    /\ Len(output) = 1

\* C32: no session state: whatever was received before, a request is
\* answered as handle_request answers it on the registry built at
\* startup, so tools/list, tools/call, prompts/list and prompts/get get
\* the same answer before and after an initialize, and each initialize
\* gets its own answer; no step of the loop changes the registry.
C32_NoSessionState ==
    [][/\ registry' = registry
       /\ order' = order
       /\ (pc = "dispatch") =>
            LET h == handle_request(register_all_tools(EmptyRegistry), order, req.v.id.v, req.v)
            IN  IF h.t = "Ready"
                THEN pc' = "respond" /\ resp' = Some(h.resp)
                ELSE pc' = "calling" /\ call'.v.url = h.c.url /\ resp' = None
       /\ (pc = "resume") =>
            resp' = Some(ToolCallResponse(req.v.id.v, BackendResult(call.v, call.v.outcome)))
       /\ (pc = "respond" /\ pc' = "await") =>
            output' = Append(output, Serialize(resp.v))]_vars

\* C32 witness: a tools/list was answered with the tools, then an
\* initialize was answered, with no initialize before the tools/list.
C32_Witness ==
    /\ Len(output) = 2
    /\ "result" \in DOMAIN output[1]
    /\ "tools" \in DOMAIN output[1].result
    /\ "result" \in DOMAIN output[2]
    /\ "protocolVersion" \in DOMAIN output[2].result

\* the string fields a registered tool requires
RequiredStringFields ==
    UNION {{RequiredFields(registry[n].tool)[i] :
                i \in 1..Len(RequiredFields(registry[n].tool))} : n \in DOMAIN registry}

\* The request in hand is a tools/call with params in order that names a
\* registered tool.
CallsRegistered ==
    /\ pc = "dispatch"
    /\ req.v.method = "tools/call"
    /\ ParseToolCallParams(req.v.params).t = "Ok"
    /\ ParseToolCallParams(req.v.params).v.name \in DOMAIN registry

\* C33: the string fields the registered tools require are target, name,
\* hosts, config_id, target_id, task_id and report_id, and a tools/call
\* whose input does not give one of the fields its tool requires as a
\* string is answered at once with an error of code -32000, the registry
\* having been asked and no backend call made.
C33_MissingFieldIsToolError ==
    [][/\ RequiredStringFields =
            {"target", "name", "hosts", "config_id", "target_id", "task_id", "report_id"}
       /\ CallsRegistered =>
            LET parsed == ParseToolCallParams(req.v.params).v
                required == RequiredFields(registry[parsed.name].tool)
            IN  (\E i \in 1..Len(required) :
                    parsed.input.t # "object" \/ required[i] \notin parsed.input.str)
                => /\ pc' = "respond"
                   /\ resp'.v.result = None
                   /\ resp'.v.error.v.code = -32000
                   /\ resp'.v.id = req.v.id.v
                   /\ lookups' = lookups + 1
                   /\ backendCalls' = backendCalls
                   /\ call' = None]_vars

\* C33 witness: openvas_create_task was called with name and target_id
\* and with a config_id that is not a string; the answer written is the
\* error -32000 about config_id and no backend call was made.
C33_Witness ==
    /\ pc = "await"
    /\ Len(output) = 1
    /\ "error" \in DOMAIN output[1]
    /\ output[1].error.code = -32000
    /\ output[1].error.message = <<"Tool error: ", "missing required field ", "config_id">>
    /\ lookups = 1
    /\ backendCalls = 0

\* The request in hand is a tools/call whose params are an object with a
\* string name and no input field.
CallsWithoutInput ==
    /\ pc = "dispatch"
    /\ req.v.method = "tools/call"
    /\ req.v.params.t = "object"
    /\ req.v.params.name \notin {Absent, NonString}
    /\ req.v.params.input.t = "absent"

\* C34: a tools/call with a name and no input field is parsed with a null
\* input and is never answered with -32602: the registry is asked for the
\* tool if the name is registered, echo answers at once with the output
\* {echo: null}, and a tool that requires a field answers with the error
\* -32000 without a backend call.
C34_AbsentInputIsNull ==
    [][CallsWithoutInput =>
        LET name == req.v.params.name
        IN  /\ ParseToolCallParams(req.v.params) = Ok([name |-> name, input |-> NullValue])
            /\ (pc' = "respond") =>
                  (resp'.v.error = None \/ resp'.v.error.v.code # -32602)
            /\ (name \in DOMAIN registry) => lookups' = lookups + 1
            /\ (name = "echo") =>
                  /\ pc' = "respond"
                  /\ resp' = Some(ok(req.v.id.v, [output |-> [t |-> "echo", echo |-> NullValue]]))
            /\ (name \in DOMAIN registry /\ RequiredFields(registry[name].tool) # << >>) =>
                  /\ pc' = "respond"
                  /\ resp'.v.result = None
                  /\ resp'.v.error.v.code = -32000
                  /\ backendCalls' = backendCalls]_vars

\* C34 witness: echo was called without input and answered {echo: null}
\* (no line sent gives echo an explicit null), then a tool that requires
\* target was called without input and answered with -32000.
C34_Witness ==
    /\ pc = "await"
    /\ Len(output) = 2
    /\ "result" \in DOMAIN output[1]
    /\ output[1].result = [output |-> [t |-> "echo", echo |-> NullValue]]
    /\ "error" \in DOMAIN output[2]
    /\ output[2].error.code = -32000
    /\ output[2].error.message = <<"Tool error: ", "missing required field ", "target">>
    /\ backendCalls = 0

\* the names of the tools register_all_tools registers
RegisteredNames == {ToolName(RegisteredTools[i]) : i \in 1..Len(RegisteredTools)}

\* the tools the crate defines and does not register
UnregisteredNames == {"comprehensive_scan", "network_discovery"}

\* C35: the registry holds the twelve names registered at startup and no
\* other, in particular neither comprehensive_scan nor network_discovery;
\* every tools/list written lists those twelve names; and a tools/call
\* naming one of the two is answered at once with the unknown-tool error,
\* no backend call being made.
C35_TwelveRegistered ==
    /\ [](/\ DOMAIN registry = RegisteredNames
          /\ Cardinality(DOMAIN registry) = 12
          /\ UnregisteredNames \cap DOMAIN registry = {}
          /\ UnregisteredNames \subseteq AllToolNames
          /\ \A i \in 1..Len(output) :
                IsToolsList(i) =>
                    /\ Len(output[i].result.tools) = 12
                    /\ {output[i].result.tools[k].name : k \in 1..12} = RegisteredNames)
    /\ [][(/\ pc = "dispatch"
            /\ req.v.method = "tools/call"
            /\ ParseToolCallParams(req.v.params).t = "Ok"
            /\ ParseToolCallParams(req.v.params).v.name \in UnregisteredNames)
           => (/\ pc' = "respond"
               /\ resp' = Some(err_resp(req.v.id.v, ToolError,
                                         <<"Tool error: ", "Unknown tool: ", req.v.params.name>>))
               /\ lookups' = lookups + 1
               /\ backendCalls' = backendCalls
               /\ call' = None)]_vars

\* C35 witness: a tools/list was answered with twelve tools and a
\* tools/call of network_discovery with the unknown-tool error, without a
\* backend call.
C35_Witness ==
    /\ pc = "await"
    /\ Len(output) = 2
    /\ IsToolsList(1)
    /\ Len(output[1].result.tools) = 12
    /\ "error" \in DOMAIN output[2]
    /\ output[2].error.message = <<"Tool error: ", "Unknown tool: ", "network_discovery">>
    /\ backendCalls = 0

\* The i-th line written answers a prompts/get with a prompt.
IsPrompt(i) == "result" \in DOMAIN output[i] /\ "prompt" \in DOMAIN output[i].result

\* C36: the answer to a prompts/get depends on the name alone: two
\* prompts written for the same name are the same object, the response
\* built for a request is the one handle_request builds for the same name
\* with any other arguments, and a listed name is answered with its prompt
\* whatever the arguments are, a required one missing or none given.
C36_ArgumentsIgnored ==
    /\ [](\A i, j \in 1..Len(output) :
            (IsPrompt(i) /\ IsPrompt(j)
             /\ output[i].result.prompt.name = output[j].result.prompt.name)
                => output[i].result = output[j].result)
    /\ [][(/\ pc = "dispatch"
            /\ req.v.method = "prompts/get"
            /\ ParsePromptGetParams(req.v.params).t = "Ok")
           => (/\ pc' = "respond"
               /\ \A a \in AllPromptArguments :
                     resp'.v = handle_request(registry, order, req.v.id.v,
                                              [req.v EXCEPT !.params.arguments = a]).resp
               /\ (req.v.params.name \in ListedPrompts) =>
                     /\ resp'.v.error = None
                     /\ resp'.v.result.v.prompt.name = req.v.params.name)]_vars

\* C36 witness: a prompts/get that gives user_goal and not the required
\* configs_json is about to be answered with the prompt that was written
\* for the request before it.
C36_Witness ==
    /\ pc = "respond"
    /\ line.v.method = "prompts/get"
    /\ line.v.params.arguments = Object({"user_goal"}, {})
    /\ resp.v.error = None
    /\ Len(output) = 1
    /\ IsPrompt(1)
    /\ resp.v.result.v = output[1].result

\* C37: the loop ends at end of input only while it awaits a line: once
\* main has returned Ok(()) every request taken on has its response
\* written, in order and with its id, no request, backend call or response
\* is in hand, as many backend calls were made as requests went to the
\* backend, and no step follows, so nothing is written after the end.
C37_EofTerminates ==
    /\ [](pc = "done" =>
            /\ Len(output) = Len(accepted)
            /\ \A i \in 1..Len(output) : output[i].id = accepted[i]
            /\ Len(paths) = Len(accepted)
            /\ req = None /\ call = None /\ resp = None)
    /\ [][/\ pc # "done"
           /\ (pc' = "done") => (pc = "await" /\ output' = output)]_vars

\* C37 witness: main has returned Ok(()) after two requests, one of them
\* answered from the backend, and both responses are written.
C37_Witness ==
    /\ pc = "done"
    /\ nread = 2
    /\ Len(accepted) = 2
    /\ Len(output) = 2
    /\ backendCalls = 1

\* C40: the body stealth_scan posts has, by stealth level (medium when
\* the input gives none): low, T3 without decoys and TTL; medium, T2 and
\* TTL 64; high, T1 and TTL 128; maximum, T0 and TTL 255; any other
\* level, T2 without decoys and TTL.  Decoys are in the body exactly when
\* use_decoys is true (or not given) and the level is medium, high or
\* maximum.
C40_StealthLevels ==
    (stealthBody # None /\ stealthBody.v.t = "Ok"
     /\ stealthInput.stealth_level # NonString /\ stealthInput.use_decoys # NonBool)
        => LET level == IF stealthInput.stealth_level = Absent THEN "medium"
                        ELSE stealthInput.stealth_level
               use_decoys == stealthInput.use_decoys \in {Absent, "true"}
               body == stealthBody.v.v
               opts == body.stealth_options
           IN  /\ body.timing = CASE level = "low" -> "T3"
                                   [] level = "medium" -> "T2"
                                   [] level = "high" -> "T1"
                                   [] level = "maximum" -> "T0"
                                   [] OTHER -> "T2"
               /\ (level = "medium") => ("ttl" \in DOMAIN opts /\ opts.ttl = 64)
               /\ (level = "high") => ("ttl" \in DOMAIN opts /\ opts.ttl = 128)
               /\ (level = "maximum") => ("ttl" \in DOMAIN opts /\ opts.ttl = 255)
               /\ (level \notin {"medium", "high", "maximum"}) => "ttl" \notin DOMAIN opts
               /\ ("decoys" \in DOMAIN opts)
                     <=> (use_decoys /\ level \in {"medium", "high", "maximum"})
               /\ body.target = stealthInput.target

\* C40 witness: the tool was executed with level low and use_decoys true,
\* and the body it posts has timing T3 and neither decoys nor TTL.
C40_Witness ==
    /\ stealthBody # None
    /\ stealthBody.v.t = "Ok"
    /\ stealthInput.stealth_level = "low"
    /\ stealthInput.use_decoys = "true"
    /\ stealthBody.v.v.timing = "T3"
    /\ DOMAIN stealthBody.v.v.stealth_options \cap {"decoys", "ttl"} = {}

====
